---- MODULE Spec2Model ----
(***************************************************************************)
(* CipherLab: the pure computation layer (RsaCipher, RailFenceCipher,      *)
(* CaesarCipher, PlayfairCipher) as state machines.  Every engine is a set of pure         *)
(* functions, so each specification draws the arguments of one call        *)
(* sequence in its initial state and its actions apply the functions, in   *)
(* the order the pages call them, or calls one function directly.          *)
(*                                                                         *)
(* Numbers are JavaScript numbers.  Every input below is an integer far    *)
(* smaller than 2^26, so every product the code forms is an exact integer  *)
(* below 2^53 and the arithmetic of the model is the arithmetic of the     *)
(* code.  A thrown Error is a result record with status "threw".           *)
(***************************************************************************)
EXTENDS Integers, Sequences, FiniteSets, TLC

VARIABLES
    rsaIn,              \* the arguments of the RSA calls: [p, q, e, message]
    keyGenResult,       \* what generateKeyPair(p, q, e) returned or threw
    encryptResult,      \* RsaCipher.encrypt(message, publicKey)
    decryptResult,      \* RsaCipher.decrypt(encryptResult.result, privateKey)
    signResult,         \* RsaCipher.sign(message, privateKey)
    verifyResult,       \* RsaCipher.verify(signResult.result, publicKey)
    bothEncResult,      \* RsaCipher.encryptWithBoth(message, privateKey, publicKey)
    bothDecResult,      \* RsaCipher.decryptWithBoth(bothEncResult.result, ...)
    fmeIn,              \* the arguments of a direct modExpWithSteps call
    fmeResult,          \* what that call returned
    railIn,             \* the arguments of the Rail Fence calls: [text, key, rounds]
    railEncrypted,      \* RailFenceCipher.encrypt(text, key, rounds)
    railDecrypted,      \* RailFenceCipher.decrypt(railEncrypted.ciphertext, key, rounds)
    railDirect,         \* RailFenceCipher.decrypt(text, key, rounds), the page's decrypt mode
    caesarIn,           \* the arguments of the Caesar calls: [text, shift]
    caesarEncoded,      \* CaesarCipher.encode(text, shift) and the solveEncode trace
    caesarDecoded,      \* CaesarCipher.decode(caesarEncoded.text, shift) and its trace
    vnEncoded,          \* CaesarCipher.encodeVietnamese(text, shift) and its trace
    vnDecoded,          \* CaesarCipher.decodeVietnamese(vnEncoded.text, shift) and its trace
    opsIn,              \* one RSA operation called directly: [operation, value, keyPair]
    opsResult,          \* what that operation returned or threw
    opsInverse,         \* the matching inverse operation applied to opsResult.result
    expIn,              \* the arguments of getValidPublicExponents: [p, q, limit]
    validExponents,     \* what getValidPublicExponents returned
    invIn,              \* the arguments of a direct modInverseWithSteps call: [a, m]
    invResult,          \* what that call returned
    playIn,             \* the arguments of the Playfair calls: [key, digraph]
    playMatrix,         \* PlayfairCipher.generateMatrix(key)
    playDigraph,        \* PlayfairCipher.encryptDigraph(playMatrix.matrix, digraph)
    playTextIn,         \* the Playfair page's inputs: [key, plaintext, separateChar, insertCharAtLast]
    playProcessed,      \* PlayfairCipher.processPlaintext(...) and getDigraphs of it
    playEncrypted,      \* what handleEncrypt got from PlayfairCipher.encrypt, or "invalid"
    primeIn,            \* the argument of a direct isPrime call
    primeResult,        \* what that call returned
    rsaPage             \* the state of the RSA page (its useState values)

rsaVars == <<rsaIn, keyGenResult, encryptResult, decryptResult, signResult,
             verifyResult, bothEncResult, bothDecResult>>
fmeVars == <<fmeIn, fmeResult>>
railVars == <<railIn, railEncrypted, railDecrypted, railDirect>>
caesarVars == <<caesarIn, caesarEncoded, caesarDecoded, vnEncoded, vnDecoded>>
opsVars == <<opsIn, opsResult, opsInverse>>
expVars == <<expIn, validExponents>>
invVars == <<invIn, invResult>>
primeVars == <<primeIn, primeResult>>
playTextVars == <<playTextIn, playProcessed, playEncrypted>>
pageVars == <<rsaPage>>
otherVars == <<primeVars, playTextVars, pageVars>>
directVars == <<opsVars, expVars, invVars, otherVars>>
playVars == <<playIn, playMatrix, playDigraph>>
vars == <<rsaVars, fmeVars, railVars, caesarVars, directVars, playVars>>

(***************************************************************************)
(* Bounds of the model.                                                    *)
(***************************************************************************)
\* p and q are drawn from 0 .. MaxP (primes and non-primes)
MaxP == 13
\* the public exponent is drawn from 0 .. MaxE; 0 is the falsy "omitted" value
MaxE == 11
\* the message is drawn from -1 .. MaxMessage (in and out of [0, n))
MaxMessage == 34
\* modExpWithSteps called directly: base, exponent, modulus
MaxBase == 9
MaxExponent == 17
MaxModulus == 8
\* Rail Fence: the text has at most MaxRailText characters, the key between
\* 1 and MaxRailKey, and there are 0 .. MaxRounds transpositions
MaxRailText == 4
MaxRailKey == 3
MaxRounds == 2
\* Caesar: the text has at most MaxCaesarText characters
MaxCaesarText == 2
\* getValidPublicExponents: a supplied limit is drawn from 0 .. MaxLimit
MaxLimit == 3
\* modInverseWithSteps called directly: a in 1 .. MaxInverseA, m in 2 .. MaxInverseM
MaxInverseA == 12
MaxInverseM == 20
\* Playfair: the key has at most MaxPlayKey characters
MaxPlayKey == 2
MaxPrimeN == 120
MaxPlayText == 4
MaxPageP == 3
MaxPageMessage == 2

(***************************************************************************)
(* Results: a call either returns a value or throws an Error.              *)
(***************************************************************************)
NotCalled == [status |-> "none"]
Threw(msg) == [status |-> "threw", error |-> msg]

ErrPNotPrime == "P must be a prime number"
ErrQNotPrime == "Q must be a prime number"
ErrSamePrimes == "P and Q must be different prime numbers"
ErrNotCoprime == "The selected e is not coprime with phi(n)"
ErrNoExponent == "Could not find a valid public exponent e"
ErrMessageRange == "Message must be between 0 and n-1"
ErrCiphertextRange == "Ciphertext must be between 0 and n-1"
ErrSignatureRange == "Signature must be between 0 and n-1"

(***************************************************************************)
(* JavaScript's % : the remainder has the sign of the dividend.            *)
(***************************************************************************)
Abs(x) == IF x < 0 THEN -x ELSE x
JsRem(a, b) == IF a >= 0 THEN a % Abs(b) ELSE -((-a) % Abs(b))

(***************************************************************************)
(* RsaCipher.isPrime                                                       *)
(***************************************************************************)
\* a variant that tests only the divisor i of each pair i, i + 2
RECURSIVE isPrimeLoop_SkipsSecond(_, _)
isPrimeLoop_SkipsSecond(num, i) ==
    IF i * i <= num
    THEN IF JsRem(num, i) = 0
         THEN FALSE
         ELSE isPrimeLoop_SkipsSecond(num, i + 6)
    ELSE TRUE

RECURSIVE isPrimeLoop(_, _)
isPrimeLoop(num, i) ==
    IF i * i <= num
    THEN IF JsRem(num, i) = 0 \/ JsRem(num, i + 2) = 0
         THEN FALSE
         ELSE isPrimeLoop(num, i + 6)
    ELSE TRUE

isPrime(num) ==
    IF num <= 1 THEN FALSE
    ELSE IF num <= 3 THEN TRUE
    ELSE IF JsRem(num, 2) = 0 \/ JsRem(num, 3) = 0 THEN FALSE
    ELSE isPrimeLoop(num, 5)

(***************************************************************************)
(* RsaCipher.gcd                                                           *)
(***************************************************************************)
RECURSIVE gcd(_, _)
gcd(a, b) == IF b = 0 THEN a ELSE gcd(b, JsRem(a, b))

(***************************************************************************)
(* RsaCipher.modInverseWithSteps                                           *)
(***************************************************************************)
\* mutant: the recorded row holds the coefficients after the shift
RECURSIVE modInverseLoop_ShiftedRow(_, _, _, _, _)
modInverseLoop_ShiftedRow(r1, r2, t1, t2, steps) ==
    IF r2 > 0
    THEN LET q == r1 \div r2
             r == r1 - q * r2
             t == t1 - q * t2
         IN  modInverseLoop_ShiftedRow(r2, r, t2, t,
                 Append(steps, [q |-> q, r1 |-> r1, r2 |-> r2, r |-> r,
                                t1 |-> t2, t2 |-> t, t |-> t]))
    ELSE [t1 |-> t1, steps |-> steps]

RECURSIVE modInverseLoop(_, _, _, _, _)
modInverseLoop(r1, r2, t1, t2, steps) ==
    IF r2 > 0
    THEN LET q == r1 \div r2
             r == r1 - q * r2
             t == t1 - q * t2
         IN  modInverseLoop(r2, r, t2, t,
                 Append(steps, [q |-> q, r1 |-> r1, r2 |-> r2, r |-> r,
                                t1 |-> t1, t2 |-> t2, t |-> t]))
    ELSE [t1 |-> t1, steps |-> steps]

\* mutant: the final "if (t1 < 0) t1 += m" is left out
modInverseWithSteps_NoNormalize(e, m) ==
    IF m = 1 THEN [d |-> 0, steps |-> <<>>]
    ELSE LET out == modInverseLoop(m, e, 0, 1, <<>>)
         IN  [d |-> out.t1, steps |-> out.steps]

modInverseWithSteps(e, m) ==
    IF m = 1 THEN [d |-> 0, steps |-> <<>>]
    ELSE LET out == modInverseLoop(m, e, 0, 1, <<>>)
         IN  [d |-> IF out.t1 < 0 THEN out.t1 + m ELSE out.t1,
              steps |-> out.steps]

(***************************************************************************)
(* RsaCipher.modExpWithSteps                                               *)
(***************************************************************************)
\* mutant: the digits are produced least significant first
RECURSIVE toBinary_LeastFirst(_)
toBinary_LeastFirst(n) ==
    IF n < 2 THEN <<n>> ELSE <<n % 2>> \o toBinary_LeastFirst(n \div 2)

\* exponent.toString(2).split('').map(Number): most significant digit first
RECURSIVE toBinary(_)
toBinary(n) == IF n < 2 THEN <<n>> ELSE Append(toBinary(n \div 2), n % 2)

\* mutant: z is recorded after the reduction, as the step's result is
RECURSIVE modExpLoop_ZReduced(_, _, _, _, _, _)
modExpLoop_ZReduced(binaryExp, i, p, result, modulus, steps) ==
    IF i <= Len(binaryExp)
    THEN LET bit == binaryExp[i]
             pSquared == p * p
             pMod == JsRem(pSquared, modulus)
             newResult == IF bit = 1 THEN JsRem(result * p, modulus) ELSE result
             step == [i |-> Len(binaryExp) - i, bit |-> bit, p |-> p,
                      pSquared |-> pSquared, pMod |-> pMod,
                      z |-> IF bit = 1 THEN <<newResult>> ELSE <<>>,
                      result |-> newResult]
         IN  modExpLoop_ZReduced(binaryExp, i + 1, pMod, newResult, modulus,
                                 Append(steps, step))
    ELSE [result |-> result, steps |-> steps]

\* the loop body for 1-based position i; the optional field z is <<>> or <<z>>
RECURSIVE modExpLoop(_, _, _, _, _, _)
modExpLoop(binaryExp, i, p, result, modulus, steps) ==
    IF i <= Len(binaryExp)
    THEN LET bit == binaryExp[i]
             pSquared == p * p
             pMod == JsRem(pSquared, modulus)
             newResult == IF bit = 1 THEN JsRem(result * p, modulus) ELSE result
             step == [i |-> Len(binaryExp) - i, bit |-> bit, p |-> p,
                      pSquared |-> pSquared, pMod |-> pMod,
                      z |-> IF bit = 1 THEN <<result * p>> ELSE <<>>,
                      result |-> newResult]
         IN  modExpLoop(binaryExp, i + 1, pMod, newResult, modulus,
                        Append(steps, step))
    ELSE [result |-> result, steps |-> steps]

modExpWithSteps(base, exponent, modulus) ==
    IF modulus = 1 THEN [result |-> 0, steps |-> <<>>]
    ELSE modExpLoop(toBinary(exponent), 1, JsRem(base, modulus), 1, modulus, <<>>)

(***************************************************************************)
(* The step table the RSA page renders from a modExp trace: one row per    *)
(* step with the columns b[i], p = p^2, p = p mod n, p.z, p = p mod n.     *)
(* The p.z cell is {step.z || '-'}: <<>> stands for the shown '-'.         *)
(***************************************************************************)
renderModExpStepsTable(steps) ==
    [k \in 1 .. Len(steps) |->
        [bit |-> steps[k].bit,
         pSquared |-> steps[k].pSquared,
         pMod |-> steps[k].pMod,
         pz |-> IF steps[k].z = <<>> \/ steps[k].z = <<0>> THEN <<>> ELSE steps[k].z,
         last |-> steps[k].result]]

(***************************************************************************)
(* RsaCipher.generateKeyPair                                               *)
(***************************************************************************)
\* for (let i = 3; i < totient; i += 2): the first i coprime to the totient,
\* or 0 when the loop ends with e still undefined (both are falsy)
\* mutant: the scan takes the first odd candidate without the gcd test
findExponent_NoGcdTest(i, totient) == IF i < totient THEN i ELSE 0

RECURSIVE findExponent(_, _)
findExponent(i, totient) ==
    IF i < totient
    THEN IF gcd(i, totient) = 1 THEN i ELSE findExponent(i + 2, totient)
    ELSE 0

\* mutant: a supplied e is used without the gcd test
keyPairFor_NoCoprimeCheck(p, q, e) ==
    LET n == p * q
        totient == (p - 1) * (q - 1)
        e1 == IF e = 0 THEN findExponent(3, totient) ELSE e
    IN  IF e1 = 0 THEN Threw(ErrNoExponent)
        ELSE LET inv == modInverseWithSteps(e1, totient)
             IN  [status |-> "ok",
                  params |-> [p |-> p, q |-> q, n |-> n, totient |-> totient,
                              e |-> e1, d |-> inv.d],
                  keyPair |-> [publicKey |-> [e |-> e1, n |-> n],
                               privateKey |-> [d |-> inv.d, n |-> n]],
                  euclideanSteps |-> inv.steps]

\* generateKeyPair once p and q passed the checks: n, totient, the choice or
\* the test of e ("!e" holds for an omitted e and for 0), then d
keyPairFor(p, q, e) ==
    LET n == p * q
        totient == (p - 1) * (q - 1)
        e1 == IF e = 0 THEN findExponent(3, totient) ELSE e
    IN  IF e # 0 /\ gcd(e, totient) # 1 THEN Threw(ErrNotCoprime)
        ELSE IF e1 = 0 THEN Threw(ErrNoExponent)
        ELSE LET inv == modInverseWithSteps(e1, totient)
             IN  [status |-> "ok",
                  params |-> [p |-> p, q |-> q, n |-> n, totient |-> totient,
                              e |-> e1, d |-> inv.d],
                  keyPair |-> [publicKey |-> [e |-> e1, n |-> n],
                               privateKey |-> [d |-> inv.d, n |-> n]],
                  euclideanSteps |-> inv.steps]

\* mutant: the "p === q" check is left out
generateKeyPair_NoDuplicateCheck(p, q, e) ==
    IF ~isPrime(p) THEN Threw(ErrPNotPrime)
    ELSE IF ~isPrime(q) THEN Threw(ErrQNotPrime)
    ELSE keyPairFor(p, q, e)

generateKeyPair(p, q, e) ==
    IF ~isPrime(p) THEN Threw(ErrPNotPrime)
    ELSE IF ~isPrime(q) THEN Threw(ErrQNotPrime)
    ELSE IF p = q THEN Threw(ErrSamePrimes)
    ELSE keyPairFor(p, q, e)

(***************************************************************************)
(* RsaCipher.encrypt / decrypt / sign / verify                             *)
(***************************************************************************)
RsaCipher_encrypt(message, publicKey) ==
    IF message < 0 \/ message >= publicKey.n THEN Threw(ErrMessageRange)
    ELSE LET out == modExpWithSteps(message, publicKey.e, publicKey.n)
         IN  [status |-> "ok", message |-> message, result |-> out.result,
              steps |-> out.steps]

RsaCipher_decrypt(ciphertext, privateKey) ==
    IF ciphertext < 0 \/ ciphertext >= privateKey.n THEN Threw(ErrCiphertextRange)
    ELSE LET out == modExpWithSteps(ciphertext, privateKey.d, privateKey.n)
         IN  [status |-> "ok", message |-> ciphertext, result |-> out.result,
              steps |-> out.steps]

RsaCipher_sign(message, privateKey) ==
    IF message < 0 \/ message >= privateKey.n THEN Threw(ErrMessageRange)
    ELSE LET out == modExpWithSteps(message, privateKey.d, privateKey.n)
         IN  [status |-> "ok", message |-> message, result |-> out.result,
              steps |-> out.steps]

\* mutant: the upper bound of the range test is "signature > n"
RsaCipher_verify_AllowsN(signature, publicKey) ==
    IF signature < 0 \/ signature > publicKey.n THEN Threw(ErrSignatureRange)
    ELSE LET out == modExpWithSteps(signature, publicKey.e, publicKey.n)
         IN  [status |-> "ok", message |-> signature, result |-> out.result,
              steps |-> out.steps]

RsaCipher_verify(signature, publicKey) ==
    IF signature < 0 \/ signature >= publicKey.n THEN Threw(ErrSignatureRange)
    ELSE LET out == modExpWithSteps(signature, publicKey.e, publicKey.n)
         IN  [status |-> "ok", message |-> signature, result |-> out.result,
              steps |-> out.steps]

(***************************************************************************)
(* RsaCipher.encryptWithBoth / decryptWithBoth                             *)
(***************************************************************************)
encryptWithBoth(message, privateKey, publicKey) ==
    IF message < 0 \/ message >= privateKey.n THEN Threw(ErrMessageRange)
    ELSE LET signed == RsaCipher_sign(message, privateKey)
             out == modExpWithSteps(signed.result, publicKey.e, publicKey.n)
         IN  [status |-> "ok", message |-> message, result |-> out.result,
              steps |-> out.steps]

decryptWithBoth(ciphertext, privateKey, publicKey) ==
    IF ciphertext < 0 \/ ciphertext >= privateKey.n THEN Threw(ErrCiphertextRange)
    ELSE LET decrypted == RsaCipher_decrypt(ciphertext, privateKey)
             out == modExpWithSteps(decrypted.result, publicKey.e, publicKey.n)
         IN  [status |-> "ok", message |-> decrypted.result, result |-> out.result,
              steps |-> out.steps]

(***************************************************************************)
(* RsaCipher.getValidPublicExponents.  The optional argument limit is <<>> *)
(* when omitted and <<limit>> when supplied.                               *)
(***************************************************************************)
DefaultLimit == 10

\* for (let i = 2; i < totient; i++), with the break after the push
RECURSIVE validELoop(_, _, _, _)
validELoop(i, totient, limit, validE) ==
    IF i < totient
    THEN IF gcd(i, totient) = 1
         THEN IF Len(validE) + 1 >= limit
              THEN Append(validE, i)
              ELSE validELoop(i + 1, totient, limit, Append(validE, i))
         ELSE validELoop(i + 1, totient, limit, validE)
    ELSE validE

getValidPublicExponents(p, q, limit) ==
    IF ~isPrime(p) \/ ~isPrime(q) THEN <<>>
    ELSE validELoop(2, (p - 1) * (q - 1),
                    IF limit = <<>> THEN DefaultLimit ELSE limit[1], <<>>)

(***************************************************************************)
(* RailFenceCipher.  A string is the sequence of its UTF-16 code units; a  *)
(* column is an array of cells, each cell a string of one character or     *)
(* the empty string.                                                       *)
(***************************************************************************)
\* the characters the texts and the keys are drawn from: a, b, c, space
RailTextChars == {97, 98, 99, 32}
RailKeyChars == {97, 98}

\* /\s+/g matches these (of the characters drawn, the space)
IsWhitespace(c) == c \in {9, 10, 11, 12, 13, 32}

\* text.replace(/\s+/g, "")
stripWhitespace(text) == SelectSeq(text, LAMBDA c : ~IsWhitespace(c))

\* `${count}`: the decimal digits of count
RECURSIVE decimalDigits(_)
decimalDigits(n) ==
    IF n < 10 THEN <<48 + n>> ELSE Append(decimalDigits(n \div 10), 48 + (n % 10))

\* [...key].forEach: one entry per key character; a repeated character gets
\* the map key char + count, the first occurrence the character itself
keyData(key) ==
    [idx \in 1 .. Len(key) |->
        LET count == Cardinality({j \in 1 .. (idx - 1) : key[j] = key[idx]})
        IN  [mapKey |-> IF count > 0 THEN <<key[idx]>> \o decimalDigits(count)
                                     ELSE <<key[idx]>>,
             displayChar |-> key[idx],
             index |-> idx - 1]]

\* a variant that puts the later of two equal characters first
keyBefore_LaterFirst(a, b) ==
    \/ a.displayChar < b.displayChar
    \/ a.displayChar = b.displayChar /\ a.index > b.index

\* the comparator of the sort: displayChar first, then the original index
keyBefore(a, b) ==
    \/ a.displayChar < b.displayChar
    \/ a.displayChar = b.displayChar /\ a.index < b.index

\* [...keyData].sort(comparator)
RECURSIVE sortKeyData(_)
sortKeyData(kd) ==
    IF kd = <<>> THEN <<>>
    ELSE LET first == CHOOSE i \in 1 .. Len(kd) :
                          \A j \in 1 .. Len(kd) : j # i => keyBefore(kd[i], kd[j])
             rest == [j \in 1 .. (Len(kd) - 1) |-> IF j < first THEN kd[j] ELSE kd[j + 1]]
         IN  <<kd[first]>> \o sortKeyData(rest)

\* array.join(""): the concatenation of the cells
RECURSIVE joinCells(_)
joinCells(cells) == IF cells = <<>> THEN <<>> ELSE Head(cells) \o joinCells(Tail(cells))

\* Step 2 of encrypt: character i (0-based) goes to column i % n, row floor(i / n)
RECURSIVE insertText(_, _, _, _)
insertText(columnMap, kd, text, i) ==
    IF i < Len(text)
    THEN LET mapKey == kd[(i % Len(kd)) + 1].mapKey
             rowIndex == i \div Len(kd)
             col == columnMap[mapKey]
             padded == IF Len(col) <= rowIndex
                       THEN col \o [j \in 1 .. (rowIndex + 1 - Len(col)) |-> <<>>]
                       ELSE col
         IN  insertText([columnMap EXCEPT ![mapKey] =
                             [padded EXCEPT ![rowIndex + 1] = <<text[i + 1]>>]],
                        kd, text, i + 1)
    ELSE columnMap

SeqMax(S) == IF S = {} THEN 0 ELSE CHOOSE x \in S : \A y \in S : y <= x

\* one round of encrypt: the trace record of the round
encryptRound(currentText, key) ==
    LET kd == keyData(key)
        mapKeys == {kd[i].mapKey : i \in 1 .. Len(kd)}
        columnMap == insertText([mk \in mapKeys |-> <<>>], kd, currentText, 0)
        alphabeticOrder == sortKeyData(kd)
        orderOf(i) == CHOOSE o \in 1 .. Len(kd) :
                          /\ alphabeticOrder[o].mapKey = kd[i].mapKey
                          /\ alphabeticOrder[o].index = kd[i].index
        maxRows == SeqMax({Len(columnMap[mk]) : mk \in mapKeys})
        sortedText == joinCells([o \in 1 .. Len(kd) |->
                                   joinCells(columnMap[alphabeticOrder[o].mapKey])])
    IN  [columnMap |-> columnMap,
         keyOrder |-> [o \in 1 .. Len(kd) |->
                          [char |-> alphabeticOrder[o].mapKey,
                           displayChar |-> alphabeticOrder[o].displayChar,
                           index |-> alphabeticOrder[o].index]],
         tableData |-> [row \in 1 .. maxRows |->
                           [c \in 1 .. Len(kd) |->
                               IF row <= Len(columnMap[kd[c].mapKey])
                               THEN columnMap[kd[c].mapKey][row] ELSE <<>>]],
         tableHeaders |-> [i \in 1 .. Len(kd) |->
                              [char |-> kd[i].mapKey,
                               displayChar |-> kd[i].displayChar,
                               order |-> orderOf(i)]],
         intermediateText |-> sortedText]

\* a variant that starts every round from the stripped plaintext
RECURSIVE encryptRounds_SameInput(_, _, _, _)
encryptRounds_SameInput(currentText, key, t, steps) ==
    IF t > 0
    THEN encryptRounds_SameInput(currentText, key, t - 1,
                                 Append(steps, encryptRound(currentText, key)))
    ELSE [status |-> "ok",
          ciphertext |-> IF steps = <<>> THEN currentText
                         ELSE steps[Len(steps)].intermediateText,
          steps |-> steps]

RECURSIVE encryptRounds(_, _, _, _)
encryptRounds(currentText, key, t, steps) ==
    IF t > 0
    THEN LET step == encryptRound(currentText, key)
         IN  encryptRounds(step.intermediateText, key, t - 1, Append(steps, step))
    ELSE [status |-> "ok", ciphertext |-> currentText, steps |-> steps]

RailFenceCipher_encrypt(plaintext, key, transpositionTimes) ==
    encryptRounds(stripWhitespace(plaintext), key, transpositionTimes, <<>>)

\* Step 4 of decrypt: the columns, cut from the text in alphabetical order;
\* currentIndex is the number of characters taken so far
\* a variant that cuts every column from the start of the text
RECURSIVE fillColumns_FromStart(_, _, _, _, _, _)
fillColumns_FromStart(columns, alphabeticOrder, colLengths, currentText, o, currentIndex) ==
    IF o <= Len(alphabeticOrder)
    THEN LET mapKey == alphabeticOrder[o].mapKey
             n == IF colLengths[mapKey] < Len(currentText) THEN colLengths[mapKey]
                  ELSE Len(currentText)
             col == [i \in 1 .. n |-> currentText[i]]
         IN  fillColumns_FromStart([columns EXCEPT ![mapKey] = col], alphabeticOrder,
                                   colLengths, currentText, o + 1, currentIndex)
    ELSE columns

RECURSIVE fillColumns(_, _, _, _, _, _)
fillColumns(columns, alphabeticOrder, colLengths, currentText, o, currentIndex) ==
    IF o <= Len(alphabeticOrder)
    THEN LET mapKey == alphabeticOrder[o].mapKey
             available == Len(currentText) - currentIndex
             n == IF colLengths[mapKey] < available THEN colLengths[mapKey]
                  ELSE available
             col == [i \in 1 .. n |-> currentText[currentIndex + i]]
         IN  fillColumns([columns EXCEPT ![mapKey] = col], alphabeticOrder,
                         colLengths, currentText, o + 1, currentIndex + n)
    ELSE columns

\* a variant of a round of decrypt that reads each row across the columns in
\* alphabetical order
decryptRound_ReadsSorted(currentText, key) ==
    LET kd == keyData(key)
        mapKeys == {kd[i].mapKey : i \in 1 .. Len(kd)}
        alphabeticOrder == sortKeyData(kd)
        numCols == Len(kd)
        charsPerCol == Len(currentText) \div numCols
        extraChars == Len(currentText) % numCols
        lastOrder(mk) == SeqMax({o \in 1 .. numCols : alphabeticOrder[o].mapKey = mk})
        colLengths == [mk \in mapKeys |->
                          charsPerCol + (IF lastOrder(mk) - 1 < extraChars THEN 1 ELSE 0)]
        columns == fillColumns([mk \in mapKeys |-> <<>>], alphabeticOrder,
                               colLengths, currentText, 1, 0)
        maxRows == SeqMax({Len(columns[mk]) : mk \in mapKeys})
    IN  joinCells([row \in 1 .. maxRows |->
                      joinCells([c \in 1 .. numCols |->
                                    IF row <= Len(columns[alphabeticOrder[c].mapKey])
                                    THEN <<columns[alphabeticOrder[c].mapKey][row]>>
                                    ELSE <<>>])])

\* one round of decrypt
decryptRound(currentText, key) ==
    LET kd == keyData(key)
        mapKeys == {kd[i].mapKey : i \in 1 .. Len(kd)}
        alphabeticOrder == sortKeyData(kd)
        numCols == Len(kd)
        totalChars == Len(currentText)
        charsPerCol == totalChars \div numCols
        extraChars == totalChars % numCols
        lastOrder(mk) == SeqMax({o \in 1 .. numCols : alphabeticOrder[o].mapKey = mk})
        colLengths == [mk \in mapKeys |->
                          charsPerCol + (IF lastOrder(mk) - 1 < extraChars THEN 1 ELSE 0)]
        columns == fillColumns([mk \in mapKeys |-> <<>>], alphabeticOrder,
                               colLengths, currentText, 1, 0)
        maxRows == SeqMax({Len(columns[mk]) : mk \in mapKeys})
    IN  joinCells([row \in 1 .. maxRows |->
                      joinCells([c \in 1 .. numCols |->
                                    IF row <= Len(columns[kd[c].mapKey])
                                    THEN <<columns[kd[c].mapKey][row]>> ELSE <<>>])])

RECURSIVE decryptRounds(_, _, _)
decryptRounds(currentText, key, t) ==
    IF t > 0 THEN decryptRounds(decryptRound(currentText, key), key, t - 1)
    ELSE currentText

RailFenceCipher_decrypt(ciphertext, key, transpositionTimes) ==
    [status |-> "ok",
     text |-> decryptRounds(stripWhitespace(ciphertext), key, transpositionTimes)]

(***************************************************************************)
(* CaesarCipher.  A character is its UTF-16 code unit.                     *)
(***************************************************************************)
\* 'ABCDEFGHIJKLMNOPQRSTUVWXYZ'
ALPHABET == [i \in 1 .. 26 |-> 64 + i]
ALPHABET_SIZE == 26

\* 'AĂÂBCDĐEÊGHIKLMNOÔƠPQRSTUVƯXY'
VN_ALPHABET ==
    <<65, 258, 194, 66, 67, 68, 272, 69, 202, 71, 72, 73, 75, 76, 77, 78, 79,
      212, 416, 80, 81, 82, 83, 84, 85, 86, 431, 88, 89>>
VN_ALPHABET_SIZE == 29

\* the map of removeDiacritics: each tone-marked letter and its base letter
DiacriticGroups == {
    [base |-> 97, marked |-> {225, 224, 7843, 227, 7841}],
    [base |-> 65, marked |-> {193, 192, 7842, 195, 7840}],
    [base |-> 259, marked |-> {7855, 7857, 7859, 7861, 7863}],
    [base |-> 258, marked |-> {7854, 7856, 7858, 7860, 7862}],
    [base |-> 226, marked |-> {7845, 7847, 7849, 7851, 7853}],
    [base |-> 194, marked |-> {7844, 7846, 7848, 7850, 7852}],
    [base |-> 101, marked |-> {233, 232, 7867, 7869, 7865}],
    [base |-> 69, marked |-> {201, 200, 7866, 7868, 7864}],
    [base |-> 234, marked |-> {7871, 7873, 7875, 7877, 7879}],
    [base |-> 202, marked |-> {7870, 7872, 7874, 7876, 7878}],
    [base |-> 105, marked |-> {237, 236, 7881, 297, 7883}],
    [base |-> 73, marked |-> {205, 204, 7880, 296, 7882}],
    [base |-> 111, marked |-> {243, 242, 7887, 245, 7885}],
    [base |-> 79, marked |-> {211, 210, 7886, 213, 7884}],
    [base |-> 244, marked |-> {7889, 7891, 7893, 7895, 7897}],
    [base |-> 212, marked |-> {7888, 7890, 7892, 7894, 7896}],
    [base |-> 417, marked |-> {7899, 7901, 7903, 7905, 7907}],
    [base |-> 416, marked |-> {7898, 7900, 7902, 7904, 7906}],
    [base |-> 117, marked |-> {250, 249, 7911, 361, 7909}],
    [base |-> 85, marked |-> {218, 217, 7910, 360, 7908}],
    [base |-> 432, marked |-> {7913, 7915, 7917, 7919, 7921}],
    [base |-> 431, marked |-> {7912, 7914, 7916, 7918, 7920}],
    [base |-> 121, marked |-> {253, 7923, 7927, 7929, 7925}],
    [base |-> 89, marked |-> {221, 7922, 7926, 7928, 7924}]}

\* str.split("").map(ch => map[ch] || ch) for one character
removeDiacritics(ch) ==
    IF \E g \in DiacriticGroups : ch \in g.marked
    THEN (CHOOSE g \in DiacriticGroups : ch \in g.marked).base
    ELSE ch

\* the lower-case / upper-case pairs of the accented letters above
AccentedCasePairs == {
    <<224, 192>>, <<225, 193>>, <<226, 194>>, <<227, 195>>, <<232,
    200>>, <<233, 201>>, <<234, 202>>, <<236, 204>>, <<237, 205>>,
    <<242, 210>>, <<243, 211>>, <<244, 212>>, <<245, 213>>, <<249,
    217>>, <<250, 218>>, <<253, 221>>, <<259, 258>>, <<273, 272>>,
    <<297, 296>>, <<361, 360>>, <<417, 416>>, <<432, 431>>, <<7841,
    7840>>, <<7843, 7842>>, <<7845, 7844>>, <<7847, 7846>>, <<7849,
    7848>>, <<7851, 7850>>, <<7853, 7852>>, <<7855, 7854>>, <<7857,
    7856>>, <<7859, 7858>>, <<7861, 7860>>, <<7863, 7862>>, <<7865,
    7864>>, <<7867, 7866>>, <<7869, 7868>>, <<7871, 7870>>, <<7873,
    7872>>, <<7875, 7874>>, <<7877, 7876>>, <<7879, 7878>>, <<7881,
    7880>>, <<7883, 7882>>, <<7885, 7884>>, <<7887, 7886>>, <<7889,
    7888>>, <<7891, 7890>>, <<7893, 7892>>, <<7895, 7894>>, <<7897,
    7896>>, <<7899, 7898>>, <<7901, 7900>>, <<7903, 7902>>, <<7905,
    7904>>, <<7907, 7906>>, <<7909, 7908>>, <<7911, 7910>>, <<7913,
    7912>>, <<7915, 7914>>, <<7917, 7916>>, <<7919, 7918>>, <<7921,
    7920>>, <<7923, 7922>>, <<7925, 7924>>, <<7927, 7926>>, <<7929,
    7928>>}

\* String.prototype.toUpperCase on one character: a-z, the accented letters,
\* and the dotless i (U+0131), whose upper case is I; anything else drawn
\* here (digits, space, upper-case letters) is its own upper case
toUpperCase(ch) ==
    IF ch >= 97 /\ ch <= 122 THEN ch - 32
    ELSE IF ch = 305 THEN 73
    ELSE IF \E pr \in AccentedCasePairs : pr[1] = ch
         THEN (CHOOSE pr \in AccentedCasePairs : pr[1] = ch)[2]
    ELSE ch

\* String.prototype.toLowerCase on one character
toLowerCase(ch) ==
    IF ch >= 65 /\ ch <= 90 THEN ch + 32
    ELSE IF \E pr \in AccentedCasePairs : pr[2] = ch
         THEN (CHOOSE pr \in AccentedCasePairs : pr[2] = ch)[1]
    ELSE ch

\* String.prototype.indexOf for one character: 0-based, -1 when absent
indexOf(alphabet, ch) ==
    IF \E i \in 1 .. Len(alphabet) : alphabet[i] = ch
    THEN (CHOOSE i \in 1 .. Len(alphabet) : alphabet[i] = ch) - 1
    ELSE -1

getCharValue(char) == indexOf(ALPHABET, toUpperCase(char))

getValueChar(value) ==
    ALPHABET[JsRem(JsRem(value, ALPHABET_SIZE) + ALPHABET_SIZE, ALPHABET_SIZE) + 1]

getVnCharValue(char) == indexOf(VN_ALPHABET, toUpperCase(removeDiacritics(char)))

getVnValueChar(value) ==
    VN_ALPHABET[JsRem(JsRem(value, VN_ALPHABET_SIZE) + VN_ALPHABET_SIZE,
                      VN_ALPHABET_SIZE) + 1]

\* value < 10 ? `0${value}` : `${value}`: the decimal digits, at least two
formatNumericValue(value) ==
    IF value < 10 THEN <<48, 48 + value>> ELSE decimalDigits(value)

\* /[a-zA-Z]/.test(char)
IsLatinLetter(char) == (char >= 97 /\ char <= 122) \/ (char >= 65 /\ char <= 90)

\* the "preserve the original case" line of the four character functions
preserveCase(char, newChar) ==
    IF char = toUpperCase(char) THEN toUpperCase(newChar) ELSE toLowerCase(newChar)

\* A character function returns the character and the trace record, if any
\* (steps: null is <<>>).
\* mutant: the result is always the upper-case letter
encodeChar_AlwaysUpper(char, shift) ==
    IF ~IsLatinLetter(char) THEN [char |-> char, steps |-> <<>>]
    ELSE LET value == getCharValue(char)
             newValue == JsRem(value + shift, ALPHABET_SIZE)
             newChar == getValueChar(newValue)
         IN  [char |-> toUpperCase(newChar),
              steps |-> <<[plaintext |-> toLowerCase(char), numericValue |-> value,
                           computation |-> [value |-> formatNumericValue(value), op |-> "+",
                                           shift |-> shift, mod |-> ALPHABET_SIZE],
                           result |-> newValue, resultChar |-> newChar]>>]

encodeChar(char, shift) ==
    IF ~IsLatinLetter(char) THEN [char |-> char, steps |-> <<>>]
    ELSE LET value == getCharValue(char)
             newValue == JsRem(value + shift, ALPHABET_SIZE)
             newChar == getValueChar(newValue)
         IN  [char |-> preserveCase(char, newChar),
              steps |-> <<[plaintext |-> toLowerCase(char), numericValue |-> value,
                           computation |-> [value |-> formatNumericValue(value), op |-> "+",
                                           shift |-> shift, mod |-> ALPHABET_SIZE],
                           result |-> newValue, resultChar |-> newChar]>>]

\* mutant: the shift is added, as in encodeChar
decodeChar_AddsShift(char, shift) ==
    IF ~IsLatinLetter(char) THEN [char |-> char, steps |-> <<>>]
    ELSE LET value == getCharValue(char)
             newValue == JsRem(JsRem(value + shift, ALPHABET_SIZE) + ALPHABET_SIZE,
                               ALPHABET_SIZE)
             newChar == getValueChar(newValue)
         IN  [char |-> preserveCase(char, newChar),
              steps |-> <<[plaintext |-> toUpperCase(char), numericValue |-> value,
                           computation |-> [value |-> formatNumericValue(value), op |-> "-",
                                           shift |-> shift, mod |-> ALPHABET_SIZE],
                           result |-> newValue, resultChar |-> newChar]>>]

decodeChar(char, shift) ==
    IF ~IsLatinLetter(char) THEN [char |-> char, steps |-> <<>>]
    ELSE LET value == getCharValue(char)
             newValue == JsRem(JsRem(value - shift, ALPHABET_SIZE) + ALPHABET_SIZE,
                               ALPHABET_SIZE)
             newChar == getValueChar(newValue)
         IN  [char |-> preserveCase(char, newChar),
              steps |-> <<[plaintext |-> toUpperCase(char), numericValue |-> value,
                           computation |-> [value |-> formatNumericValue(value), op |-> "-",
                                           shift |-> shift, mod |-> ALPHABET_SIZE],
                           result |-> newValue, resultChar |-> newChar]>>]

\* mutant: the pass-through test is the one of the Latin alphabet
encodeVnChar_LatinTest(char, shift) ==
    IF ~IsLatinLetter(char) THEN [char |-> char, steps |-> <<>>]
    ELSE LET value == getVnCharValue(char)
             newValue == JsRem(value + shift, VN_ALPHABET_SIZE)
             newChar == getVnValueChar(newValue)
         IN  [char |-> preserveCase(char, newChar),
              steps |-> <<[plaintext |-> toLowerCase(char), numericValue |-> value,
                           computation |-> [value |-> formatNumericValue(value), op |-> "+",
                                           shift |-> shift, mod |-> VN_ALPHABET_SIZE],
                           result |-> newValue, resultChar |-> newChar]>>]

encodeVnChar(char, shift) ==
    IF indexOf(VN_ALPHABET, toUpperCase(removeDiacritics(char))) = -1
    THEN [char |-> char, steps |-> <<>>]
    ELSE LET value == getVnCharValue(char)
             newValue == JsRem(value + shift, VN_ALPHABET_SIZE)
             newChar == getVnValueChar(newValue)
         IN  [char |-> preserveCase(char, newChar),
              steps |-> <<[plaintext |-> toLowerCase(char), numericValue |-> value,
                           computation |-> [value |-> formatNumericValue(value), op |-> "+",
                                           shift |-> shift, mod |-> VN_ALPHABET_SIZE],
                           result |-> newValue, resultChar |-> newChar]>>]

\* mutant: the 26 of the Latin alphabet is used for the accented alphabet
decodeVnChar_LatinSize(char, shift) ==
    IF indexOf(VN_ALPHABET, toUpperCase(removeDiacritics(char))) = -1
    THEN [char |-> char, steps |-> <<>>]
    ELSE LET value == getVnCharValue(char)
             newValue == JsRem(JsRem(value - shift, ALPHABET_SIZE) + ALPHABET_SIZE,
                               ALPHABET_SIZE)
             newChar == getVnValueChar(newValue)
         IN  [char |-> preserveCase(char, newChar),
              steps |-> <<[plaintext |-> toUpperCase(char), numericValue |-> value,
                           computation |-> [value |-> formatNumericValue(value), op |-> "-",
                                           shift |-> shift, mod |-> VN_ALPHABET_SIZE],
                           result |-> newValue, resultChar |-> newChar]>>]

decodeVnChar(char, shift) ==
    IF indexOf(VN_ALPHABET, toUpperCase(removeDiacritics(char))) = -1
    THEN [char |-> char, steps |-> <<>>]
    ELSE LET value == getVnCharValue(char)
             newValue == JsRem(JsRem(value - shift, VN_ALPHABET_SIZE) + VN_ALPHABET_SIZE,
                               VN_ALPHABET_SIZE)
             newChar == getVnValueChar(newValue)
         IN  [char |-> preserveCase(char, newChar),
              steps |-> <<[plaintext |-> toUpperCase(char), numericValue |-> value,
                           computation |-> [value |-> formatNumericValue(value), op |-> "-",
                                           shift |-> shift, mod |-> VN_ALPHABET_SIZE],
                           result |-> newValue, resultChar |-> newChar]>>]

\* text.split('').map(char => f(char, shift).char).join('')
CaesarCipher_encode(text, shift) ==
    [status |-> "ok", text |-> [i \in 1 .. Len(text) |-> encodeChar(text[i], shift).char]]

CaesarCipher_decode(text, shift) ==
    [status |-> "ok", text |-> [i \in 1 .. Len(text) |-> decodeChar(text[i], shift).char]]

encodeVietnamese(text, shift) ==
    [status |-> "ok", text |-> [i \in 1 .. Len(text) |-> encodeVnChar(text[i], shift).char]]

decodeVietnamese(text, shift) ==
    [status |-> "ok", text |-> [i \in 1 .. Len(text) |-> decodeVnChar(text[i], shift).char]]

\* text.split('').forEach(char => { if (result.steps) steps.push(result.steps) })
\* over the per-character results, each <<>> (null) or <<record>>
RECURSIVE pushSteps(_)
pushSteps(results) ==
    IF results = <<>> THEN <<>>
    ELSE Head(results) \o pushSteps(Tail(results))

solveEncode(text, shift) ==
    pushSteps([i \in 1 .. Len(text) |-> encodeChar(text[i], shift).steps])

solveDecode(text, shift) ==
    pushSteps([i \in 1 .. Len(text) |-> decodeChar(text[i], shift).steps])

solveEncodeVietnamese(text, shift) ==
    pushSteps([i \in 1 .. Len(text) |-> encodeVnChar(text[i], shift).steps])

solveDecodeVietnamese(text, shift) ==
    pushSteps([i \in 1 .. Len(text) |-> decodeVnChar(text[i], shift).steps])

(***************************************************************************)
(* PlayfairCipher.  A matrix is a sequence of five rows; rows and columns  *)
(* are numbered from 0 as in the code.                                     *)
(***************************************************************************)
ErrLetterNotFound == "Letter not found in matrix"
ErrTypeError == "TypeError: Cannot read properties of undefined"

\* 'abcdefghiklmnopqrstuvwxyz' (no j)
PlayfairAlphabet == [i \in 1 .. 25 |-> IF i <= 9 THEN 96 + i ELSE 97 + i]

\* .replace(/[^a-z]/g, '')
RECURSIVE keepLowerLetters(_)
keepLowerLetters(text) ==
    IF text = <<>> THEN <<>>
    ELSE IF Head(text) >= 97 /\ Head(text) <= 122
         THEN <<Head(text)>> \o keepLowerLetters(Tail(text))
         ELSE keepLowerLetters(Tail(text))

\* .toLowerCase().replace(/[^a-z]/g, '').replace(/j/g, 'i')
normalizeLetters(text) ==
    LET lower == [i \in 1 .. Len(text) |-> toLowerCase(text[i])]
        letters == keepLowerLetters(lower)
    IN  [i \in 1 .. Len(letters) |-> IF letters[i] = 106 THEN 105 ELSE letters[i]]

\* [...new Set(chars)]: the first occurrences, in order
RECURSIVE uniqueInOrder(_, _)
uniqueInOrder(chars, seen) ==
    IF chars = <<>> THEN seen
    ELSE IF \E i \in 1 .. Len(seen) : seen[i] = Head(chars)
         THEN uniqueInOrder(Tail(chars), seen)
         ELSE uniqueInOrder(Tail(chars), Append(seen, Head(chars)))

\* for (const char of alphabet) if (!uniqueChars.includes(char)) push
RECURSIVE addRemaining(_, _)
addRemaining(uniqueChars, k) ==
    IF k > Len(PlayfairAlphabet) THEN uniqueChars
    ELSE IF \E i \in 1 .. Len(uniqueChars) : uniqueChars[i] = PlayfairAlphabet[k]
         THEN addRemaining(uniqueChars, k + 1)
         ELSE addRemaining(Append(uniqueChars, PlayfairAlphabet[k]), k + 1)

\* uniqueChars.slice(i * 5, i * 5 + 5) for i = 0 .. 4
sliceRows(uniqueChars) ==
    [r \in 1 .. 5 |->
        LET from == (r - 1) * 5
            upTo == IF from + 5 < Len(uniqueChars) THEN from + 5 ELSE Len(uniqueChars)
        IN  IF from >= Len(uniqueChars) THEN <<>>
            ELSE [c \in 1 .. (upTo - from) |-> uniqueChars[from + c]]]

\* mutant: the key's j is not replaced by i
generateMatrix_KeepsJ(key) ==
    LET lower == [i \in 1 .. Len(key) |-> toLowerCase(key[i])]
    IN  sliceRows(addRemaining(uniqueInOrder(keepLowerLetters(lower), <<>>), 1))

generateMatrix(key) ==
    sliceRows(addRemaining(uniqueInOrder(normalizeLetters(key), <<>>), 1))

\* the first (row, col) in row-major order holding the letter, or the Error
findPosition(matrix, letter) ==
    LET normalizedLetter == IF toLowerCase(letter) = 106 THEN 105
                            ELSE toLowerCase(letter)
        found == {rc \in (0 .. 4) \X (0 .. 4) :
                     /\ rc[2] + 1 <= Len(matrix[rc[1] + 1])
                     /\ matrix[rc[1] + 1][rc[2] + 1] = normalizedLetter}
    IN  IF found = {} THEN Threw(ErrLetterNotFound)
        ELSE LET first == CHOOSE rc \in found :
                              \A other \in found :
                                  rc[1] * 5 + rc[2] <= other[1] * 5 + other[2]
             IN  [status |-> "ok", row |-> first[1], col |-> first[2]]

\* mutant: the rectangle rule swaps the rows instead of the columns
encryptDigraph_SwapsRows(matrix, digraph) ==
    IF Len(digraph) < 2 THEN Threw(ErrTypeError)
    ELSE LET pos1 == findPosition(matrix, digraph[1])
             pos2 == findPosition(matrix, digraph[2])
         IN  IF pos1.status = "threw" THEN pos1
             ELSE IF pos2.status = "threw" THEN pos2
             ELSE LET new == IF pos1.row = pos2.row
                             THEN [row1 |-> pos1.row, col1 |-> (pos1.col + 1) % 5,
                                   row2 |-> pos2.row, col2 |-> (pos2.col + 1) % 5]
                             ELSE IF pos1.col = pos2.col
                             THEN [row1 |-> (pos1.row + 1) % 5, col1 |-> pos1.col,
                                   row2 |-> (pos2.row + 1) % 5, col2 |-> pos2.col]
                             ELSE [row1 |-> pos2.row, col1 |-> pos1.col,
                                   row2 |-> pos1.row, col2 |-> pos2.col]
                  IN  [status |-> "ok",
                       text |-> <<matrix[new.row1 + 1][new.col1 + 1],
                                  matrix[new.row2 + 1][new.col2 + 1]>>]

\* mutant: the same-column rule takes the letters above
encryptDigraph_ShiftsUp(matrix, digraph) ==
    IF Len(digraph) < 2 THEN Threw(ErrTypeError)
    ELSE LET pos1 == findPosition(matrix, digraph[1])
             pos2 == findPosition(matrix, digraph[2])
         IN  IF pos1.status = "threw" THEN pos1
             ELSE IF pos2.status = "threw" THEN pos2
             ELSE LET new == IF pos1.row = pos2.row
                             THEN [row1 |-> pos1.row, col1 |-> (pos1.col + 1) % 5,
                                   row2 |-> pos2.row, col2 |-> (pos2.col + 1) % 5]
                             ELSE IF pos1.col = pos2.col
                             THEN [row1 |-> (pos1.row + 4) % 5, col1 |-> pos1.col,
                                   row2 |-> (pos2.row + 4) % 5, col2 |-> pos2.col]
                             ELSE [row1 |-> pos1.row, col1 |-> pos2.col,
                                   row2 |-> pos2.row, col2 |-> pos1.col]
                  IN  [status |-> "ok",
                       text |-> <<matrix[new.row1 + 1][new.col1 + 1],
                                  matrix[new.row2 + 1][new.col2 + 1]>>]

\* a digraph of fewer than two characters makes findPosition call
\* toLowerCase on undefined, a TypeError
encryptDigraph(matrix, digraph) ==
    IF Len(digraph) < 2 THEN Threw(ErrTypeError)
    ELSE LET pos1 == findPosition(matrix, digraph[1])
             pos2 == findPosition(matrix, digraph[2])
         IN  IF pos1.status = "threw" THEN pos1
             ELSE IF pos2.status = "threw" THEN pos2
             ELSE LET new == IF pos1.row = pos2.row
                             THEN [row1 |-> pos1.row, col1 |-> (pos1.col + 1) % 5,
                                   row2 |-> pos2.row, col2 |-> (pos2.col + 1) % 5]
                             ELSE IF pos1.col = pos2.col
                             THEN [row1 |-> (pos1.row + 1) % 5, col1 |-> pos1.col,
                                   row2 |-> (pos2.row + 1) % 5, col2 |-> pos2.col]
                             ELSE [row1 |-> pos1.row, col1 |-> pos2.col,
                                   row2 |-> pos2.row, col2 |-> pos1.col]
                  IN  [status |-> "ok",
                       text |-> <<matrix[new.row1 + 1][new.col1 + 1],
                                  matrix[new.row2 + 1][new.col2 + 1]>>]

(***************************************************************************)
(* PlayfairCipher.processPlaintext, getDigraphs, encrypt.  separateChar is *)
(* a string (of any length when the function is called directly).          *)
(***************************************************************************)
\* the loop of processPlaintext: each letter, then the separator when the
\* next letter is the same (i is the 0-based index)
RECURSIVE insertSeparators(_, _, _)
insertSeparators(processed, separateChar, i) ==
    IF i < Len(processed)
    THEN <<processed[i + 1]>>
            \o (IF i < Len(processed) - 1 /\ processed[i + 1] = processed[i + 2]
                THEN separateChar ELSE <<>>)
            \o insertSeparators(processed, separateChar, i + 1)
    ELSE <<>>

\* a variant that decides on the final separator from the normalized text,
\* before the separators are inserted
processPlaintext_PadsByLetters(plaintext, separateChar, insertCharAtLast) ==
    LET processed == normalizeLetters(plaintext)
        result == insertSeparators(processed, separateChar, 0)
    IN  IF Len(processed) % 2 # 0 /\ insertCharAtLast THEN result \o separateChar
        ELSE result

processPlaintext(plaintext, separateChar, insertCharAtLast) ==
    LET processed == normalizeLetters(plaintext)
        result == insertSeparators(processed, separateChar, 0)
    IN  IF Len(result) % 2 # 0 /\ insertCharAtLast THEN result \o separateChar
        ELSE result

\* text.substring(i, i + 2) for i = 0, 2, ...; the last one may be short
getDigraphs(text) ==
    [k \in 1 .. ((Len(text) + 1) \div 2) |->
        IF 2 * k <= Len(text) THEN <<text[2 * k - 1], text[2 * k]>>
        ELSE <<text[2 * k - 1]>>]

\* the for loop of encrypt from digraph k on: the trace, or the Error of the
\* first digraph that encryptDigraph throws on
RECURSIVE encryptDigraphs(_, _, _, _)
RECURSIVE pushDigraph(_, _, _, _, _)
pushDigraph(matrix, plaintextDigraphs, k, encryptedDigraphs, encryptedDigraph) ==
    IF encryptedDigraph.status = "threw" THEN encryptedDigraph
    ELSE encryptDigraphs(matrix, plaintextDigraphs, k + 1,
                         Append(encryptedDigraphs,
                                [plaintext |-> plaintextDigraphs[k],
                                 ciphertext |-> encryptedDigraph.text]))

encryptDigraphs(matrix, plaintextDigraphs, k, encryptedDigraphs) ==
    IF k > Len(plaintextDigraphs)
    THEN [status |-> "ok", digraphs |-> encryptedDigraphs]
    ELSE pushDigraph(matrix, plaintextDigraphs, k, encryptedDigraphs,
                     encryptDigraph(matrix, plaintextDigraphs[k]))

\* the value encrypt returns once the loop has ended, or the Error
playfairResult(matrix, processedPlaintext, encrypted) ==
    IF encrypted.status = "threw" THEN encrypted
    ELSE [status |-> "ok",
          ciphertext |-> joinCells([k \in 1 .. Len(encrypted.digraphs) |->
                                       encrypted.digraphs[k].ciphertext]),
          matrix |-> matrix,
          processedPlaintext |-> processedPlaintext,
          digraphs |-> encrypted.digraphs]

encryptProcessed(matrix, processedPlaintext) ==
    playfairResult(matrix, processedPlaintext,
                   encryptDigraphs(matrix, getDigraphs(processedPlaintext), 1, <<>>))

PlayfairCipher_encrypt(params) ==
    encryptProcessed(generateMatrix(params.key),
                     processPlaintext(params.plaintext, params.separateChar,
                                      params.insertCharAtLast))

\* s.trim(): non-empty when some character is not whitespace
trimIsEmpty(text) == \A i \in 1 .. Len(text) : IsWhitespace(text[i])

\* PlayfairPage.validateInputs
validateInputs(in) ==
    /\ ~trimIsEmpty(in.key)
    /\ ~trimIsEmpty(in.plaintext)
    /\ Len(in.separateChar) = 1

\* PlayfairPage.handleEncrypt: the result shown, the Error caught, or the
\* rejection by validateInputs
handleEncrypt(in) ==
    IF validateInputs(in) THEN PlayfairCipher_encrypt(in)
    ELSE [status |-> "invalid"]

(***************************************************************************)
(* The RSA page (RsaPage.tsx).  A page state is the record of its useState *)
(* values; null is NotCalled for a result object and <<>> for a number or  *)
(* a string.  A handler is an operator from page state to page state, the  *)
(* effects that follow a change of p, q or e included.                     *)
(***************************************************************************)
NoResult == [encryption |-> <<>>, decryption |-> <<>>, signature |-> <<>>,
             verification |-> <<>>]

\* the useState initial values, before the effects of the first render
initialPage ==
    [p |-> 11, q |-> 3, e |-> 3, possibleE |-> <<>>, message |-> 9,
     result |-> NoResult, securityMode |-> "confidentiality",
     keyGenResult |-> NotCalled, encryptResult |-> NotCalled,
     decryptResult |-> NotCalled, signResult |-> NotCalled,
     verifyResult |-> NotCalled, error |-> <<>>]

\* generateKeys: setError(null), then the key pair or the Error's message
generateKeys(page) ==
    LET generated == generateKeyPair(page.p, page.q, page.e)
    IN  IF generated.status = "ok"
        THEN [page EXCEPT !.error = <<>>, !.keyGenResult = generated]
        ELSE [page EXCEPT !.error = <<generated.error>>, !.keyGenResult = NotCalled]

\* the two effects on [p, q, e]: possibleE is recomputed, an e that is not
\* among a non-empty possibleE is replaced by its first element, and the
\* keys are generated; a replaced e runs the effects once more
runEffects(page) ==
    LET validEValues == IF isPrime(page.p) /\ isPrime(page.q)
                        THEN getValidPublicExponents(page.p, page.q, <<>>)
                        ELSE <<>>
        included == \E i \in 1 .. Len(validEValues) : validEValues[i] = page.e
        first == generateKeys([page EXCEPT !.possibleE = validEValues])
    IN  IF Len(validEValues) > 0 /\ ~included
        THEN generateKeys([first EXCEPT !.e = validEValues[1]])
        ELSE first

\* the page once mounted
mountedPage == runEffects(initialPage)

\* performOperations.  All four values are computed in every mode; "both"
\* encrypts and decrypts with encryptWithBoth / decryptWithBoth.  The first
\* call of each branch tests the range of the message, and no later call
\* throws once it has passed, so an Error leaves every result as it was.
performOperations(page) ==
    IF page.keyGenResult.status # "ok"
    THEN [page EXCEPT !.error = <<"Generate keys first">>]
    ELSE LET publicKey == page.keyGenResult.keyPair.publicKey
             privateKey == page.keyGenResult.keyPair.privateKey
             both == page.securityMode = "both"
             encryptionResult == IF both
                                 THEN encryptWithBoth(page.message, privateKey, publicKey)
                                 ELSE RsaCipher_encrypt(page.message, publicKey)
         IN  IF encryptionResult.status = "threw"
             THEN [page EXCEPT !.error = <<encryptionResult.error>>]
             ELSE LET decryptionResult ==
                          IF both
                          THEN decryptWithBoth(encryptionResult.result, privateKey, publicKey)
                          ELSE RsaCipher_decrypt(encryptionResult.result, privateKey)
                      signed == RsaCipher_sign(page.message, privateKey)
                      verified == RsaCipher_verify(signed.result, publicKey)
                  IN  [page EXCEPT !.error = <<>>,
                                   !.encryptResult = encryptionResult,
                                   !.decryptResult = decryptionResult,
                                   !.signResult = signed,
                                   !.verifyResult = verified,
                                   !.result = [encryption |-> <<encryptionResult.result>>,
                                               decryption |-> <<decryptionResult.result>>,
                                               signature |-> <<signed.result>>,
                                               verification |-> <<verified.result>>]]

\* the part of the page under the key parameters (message, security mode,
\* Calculate, the results) is rendered when there is no error and a key pair
operationsShown(page) == page.error = <<>> /\ page.keyGenResult.status = "ok"

(***************************************************************************)
(* The RSA call sequence: generateKeyPair, then the three round trips the  *)
(* page performs with the returned key pair.                               *)
(***************************************************************************)
RsaIdle ==
    /\ rsaIn = [p |-> 0, q |-> 0, e |-> 0, message |-> 0]
    /\ keyGenResult = NotCalled
    /\ encryptResult = NotCalled
    /\ decryptResult = NotCalled
    /\ signResult = NotCalled
    /\ verifyResult = NotCalled
    /\ bothEncResult = NotCalled
    /\ bothDecResult = NotCalled

FmeIdle ==
    /\ fmeIn = [base |-> 0, exponent |-> 0, modulus |-> 1]
    /\ fmeResult = NotCalled

RailIdle ==
    /\ railIn = [text |-> <<>>, key |-> <<>>, rounds |-> 0]
    /\ railEncrypted = NotCalled
    /\ railDecrypted = NotCalled
    /\ railDirect = NotCalled

CaesarIdle ==
    /\ caesarIn = [text |-> <<>>, shift |-> 0]
    /\ caesarEncoded = NotCalled
    /\ caesarDecoded = NotCalled
    /\ vnEncoded = NotCalled
    /\ vnDecoded = NotCalled

OpsIdle ==
    /\ opsIn = [operation |-> "none", value |-> 0,
                keyPair |-> [publicKey |-> [e |-> 0, n |-> 0],
                             privateKey |-> [d |-> 0, n |-> 0]]]
    /\ opsResult = NotCalled
    /\ opsInverse = NotCalled

ExpIdle ==
    /\ expIn = [p |-> 0, q |-> 0, limit |-> <<>>]
    /\ validExponents = NotCalled

InvIdle ==
    /\ invIn = [a |-> 0, m |-> 1]
    /\ invResult = NotCalled

PrimeIdle ==
    /\ primeIn = 0
    /\ primeResult = NotCalled

PlayTextIdle ==
    /\ playTextIn = [key |-> <<>>, plaintext |-> <<>>, separateChar |-> <<>>,
                     insertCharAtLast |-> FALSE]
    /\ playProcessed = NotCalled
    /\ playEncrypted = NotCalled

PageIdle == rsaPage = mountedPage

OtherIdle ==
    /\ PrimeIdle
    /\ PlayTextIdle
    /\ PageIdle

DirectIdle ==
    /\ OpsIdle
    /\ ExpIdle
    /\ InvIdle
    /\ OtherIdle

PlayIdle ==
    /\ playIn = [key |-> <<>>, digraph |-> <<>>]
    /\ playMatrix = NotCalled
    /\ playDigraph = NotCalled

RsaInit ==
    /\ rsaIn \in [p : 0 .. MaxP, q : 0 .. MaxP, e : 0 .. MaxE,
                   message : -1 .. MaxMessage]
    /\ keyGenResult = NotCalled
    /\ encryptResult = NotCalled
    /\ decryptResult = NotCalled
    /\ signResult = NotCalled
    /\ verifyResult = NotCalled
    /\ bothEncResult = NotCalled
    /\ bothDecResult = NotCalled
    /\ FmeIdle
    /\ RailIdle
    /\ CaesarIdle
    /\ DirectIdle
    /\ PlayIdle

GenerateKeys ==
    /\ keyGenResult.status = "none"
    /\ keyGenResult' = generateKeyPair(rsaIn.p, rsaIn.q, rsaIn.e)
    /\ UNCHANGED <<rsaIn, encryptResult, decryptResult, signResult, verifyResult,
                   bothEncResult, bothDecResult, fmeVars, railVars, caesarVars, directVars, playVars>>

Encrypt ==
    /\ keyGenResult.status = "ok"
    /\ encryptResult.status = "none"
    /\ encryptResult' = RsaCipher_encrypt(rsaIn.message, keyGenResult.keyPair.publicKey)
    /\ UNCHANGED <<rsaIn, keyGenResult, decryptResult, signResult, verifyResult,
                   bothEncResult, bothDecResult, fmeVars, railVars, caesarVars, directVars, playVars>>

Decrypt ==
    /\ encryptResult.status = "ok"
    /\ decryptResult.status = "none"
    /\ decryptResult' = RsaCipher_decrypt(encryptResult.result,
                                          keyGenResult.keyPair.privateKey)
    /\ UNCHANGED <<rsaIn, keyGenResult, encryptResult, signResult, verifyResult,
                   bothEncResult, bothDecResult, fmeVars, railVars, caesarVars, directVars, playVars>>

Sign ==
    /\ keyGenResult.status = "ok"
    /\ signResult.status = "none"
    /\ signResult' = RsaCipher_sign(rsaIn.message, keyGenResult.keyPair.privateKey)
    /\ UNCHANGED <<rsaIn, keyGenResult, encryptResult, decryptResult, verifyResult,
                   bothEncResult, bothDecResult, fmeVars, railVars, caesarVars, directVars, playVars>>

Verify ==
    /\ signResult.status = "ok"
    /\ verifyResult.status = "none"
    /\ verifyResult' = RsaCipher_verify(signResult.result,
                                        keyGenResult.keyPair.publicKey)
    /\ UNCHANGED <<rsaIn, keyGenResult, encryptResult, decryptResult, signResult,
                   bothEncResult, bothDecResult, fmeVars, railVars, caesarVars, directVars, playVars>>

EncryptWithBoth ==
    /\ keyGenResult.status = "ok"
    /\ bothEncResult.status = "none"
    /\ bothEncResult' = encryptWithBoth(rsaIn.message,
                                        keyGenResult.keyPair.privateKey,
                                        keyGenResult.keyPair.publicKey)
    /\ UNCHANGED <<rsaIn, keyGenResult, encryptResult, decryptResult, signResult,
                   verifyResult, bothDecResult, fmeVars, railVars, caesarVars, directVars, playVars>>

DecryptWithBoth ==
    /\ bothEncResult.status = "ok"
    /\ bothDecResult.status = "none"
    /\ bothDecResult' = decryptWithBoth(bothEncResult.result,
                                        keyGenResult.keyPair.privateKey,
                                        keyGenResult.keyPair.publicKey)
    /\ UNCHANGED <<rsaIn, keyGenResult, encryptResult, decryptResult, signResult,
                   verifyResult, bothEncResult, fmeVars, railVars, caesarVars, directVars, playVars>>

RsaNext ==
    \/ GenerateKeys
    \/ Encrypt
    \/ Decrypt
    \/ Sign
    \/ Verify
    \/ EncryptWithBoth
    \/ DecryptWithBoth

SpecRsa == RsaInit /\ [][RsaNext]_vars

(***************************************************************************)
(* modExpWithSteps called directly (the page's fast-modular-exponentiation *)
(* calculator).                                                            *)
(***************************************************************************)
FmeInit ==
    /\ fmeIn \in [base : 0 .. MaxBase, exponent : 0 .. MaxExponent,
                   modulus : (1 .. MaxModulus) \cup {77}]
    /\ fmeResult = NotCalled
    /\ RsaIdle
    /\ RailIdle
    /\ CaesarIdle
    /\ DirectIdle
    /\ PlayIdle

CalculateFme ==
    /\ fmeResult.status = "none"
    /\ LET out == modExpWithSteps(fmeIn.base, fmeIn.exponent, fmeIn.modulus)
       IN  fmeResult' = [status |-> "ok", message |-> fmeIn.base,
                         result |-> out.result, steps |-> out.steps]
    /\ UNCHANGED <<fmeIn, rsaVars, railVars, caesarVars, directVars, playVars>>

FmeNext == CalculateFme

SpecFme == FmeInit /\ [][FmeNext]_vars

(***************************************************************************)
(* The Rail Fence call sequences: encrypt, then decrypt of the ciphertext  *)
(* with the same key and the same number of rounds; or decrypt of the      *)
(* entered text.                                                           *)
(***************************************************************************)
RECURSIVE SeqsUpTo(_, _)
SeqsUpTo(S, n) ==
    IF n = 0 THEN {<<>>}
    ELSE LET shorter == SeqsUpTo(S, n - 1)
         IN  shorter \cup {Append(t, c) : t \in shorter, c \in S}

RailInit ==
    /\ railIn \in [text : SeqsUpTo(RailTextChars, MaxRailText),
                    key : SeqsUpTo(RailKeyChars, MaxRailKey) \ {<<>>},
                    rounds : 0 .. MaxRounds]
    /\ railEncrypted = NotCalled
    /\ railDecrypted = NotCalled
    /\ railDirect = NotCalled
    /\ RsaIdle
    /\ FmeIdle
    /\ CaesarIdle
    /\ DirectIdle
    /\ PlayIdle

RailEncrypt ==
    /\ railDirect.status = "none"
    /\ railEncrypted.status = "none"
    /\ railEncrypted' = RailFenceCipher_encrypt(railIn.text, railIn.key, railIn.rounds)
    /\ UNCHANGED <<railIn, railDecrypted, railDirect, rsaVars, fmeVars, caesarVars, directVars, playVars>>

RailDecrypt ==
    /\ railEncrypted.status = "ok"
    /\ railDecrypted.status = "none"
    /\ railDecrypted' = RailFenceCipher_decrypt(railEncrypted.ciphertext, railIn.key,
                                                railIn.rounds)
    /\ UNCHANGED <<railIn, railEncrypted, railDirect, rsaVars, fmeVars, caesarVars,
                   directVars, playVars>>

\* the page in decrypt mode: the entered text itself is decrypted
RailDecryptText ==
    /\ railEncrypted.status = "none"
    /\ railDirect.status = "none"
    /\ railDirect' = RailFenceCipher_decrypt(railIn.text, railIn.key, railIn.rounds)
    /\ UNCHANGED <<railIn, railEncrypted, railDecrypted, rsaVars, fmeVars, caesarVars,
                   directVars, playVars>>

RailNext ==
    \/ RailEncrypt
    \/ RailDecrypt
    \/ RailDecryptText

SpecRailFence == RailInit /\ [][RailNext]_vars

(***************************************************************************)
(* The Caesar call sequences: encode then decode of the result with the    *)
(* same shift, under each alphabet.  As the page's processText does, each  *)
(* step calls the function and its solve... companion for the trace.       *)
(***************************************************************************)
\* the characters the texts are drawn from: A Z a z (in both alphabets or
\* Latin only), F w (Latin only), space and 1 (in neither), Ă đ ư (accented
\* only), á Ắ (tone-marked), ı (dotless i)
CaesarChars == {65, 90, 97, 122, 70, 119, 32, 49, 258, 273, 432, 225, 7854, 305}

\* the shifts: 1 .. 28 as the page allows (1 .. 25 under the Latin
\* alphabet), and -1, 0, 29 and 30, which the functions accept as well
CaesarShifts == (-1) .. (VN_ALPHABET_SIZE + 1)

\* 'Hello World', the text of the README's example
HelloWorld == <<72, 101, 108, 108, 111, 32, 87, 111, 114, 108, 100>>

\* the texts: every short text over CaesarChars, every Latin letter alone,
\* and the README's example
CaesarTexts ==
    SeqsUpTo(CaesarChars, MaxCaesarText)
        \cup {<<ch>> : ch \in (65 .. 90) \cup (97 .. 122)}
        \cup {HelloWorld}

CaesarInit ==
    /\ caesarIn \in [text : CaesarTexts, shift : CaesarShifts]
    /\ caesarEncoded = NotCalled
    /\ caesarDecoded = NotCalled
    /\ vnEncoded = NotCalled
    /\ vnDecoded = NotCalled
    /\ RsaIdle
    /\ FmeIdle
    /\ RailIdle
    /\ DirectIdle
    /\ PlayIdle

Encode ==
    /\ caesarEncoded.status = "none"
    /\ caesarEncoded' = [status |-> "ok",
                         text |-> CaesarCipher_encode(caesarIn.text, caesarIn.shift).text,
                         steps |-> solveEncode(caesarIn.text, caesarIn.shift)]
    /\ UNCHANGED <<caesarIn, caesarDecoded, vnEncoded, vnDecoded, rsaVars, fmeVars,
                   railVars, directVars, playVars>>

Decode ==
    /\ caesarEncoded.status = "ok"
    /\ caesarDecoded.status = "none"
    /\ caesarDecoded' = [status |-> "ok",
                         text |-> CaesarCipher_decode(caesarEncoded.text, caesarIn.shift).text,
                         steps |-> solveDecode(caesarEncoded.text, caesarIn.shift)]
    /\ UNCHANGED <<caesarIn, caesarEncoded, vnEncoded, vnDecoded, rsaVars, fmeVars,
                   railVars, directVars, playVars>>

EncodeVietnamese ==
    /\ vnEncoded.status = "none"
    /\ vnEncoded' = [status |-> "ok",
                     text |-> encodeVietnamese(caesarIn.text, caesarIn.shift).text,
                     steps |-> solveEncodeVietnamese(caesarIn.text, caesarIn.shift)]
    /\ UNCHANGED <<caesarIn, caesarEncoded, caesarDecoded, vnDecoded, rsaVars, fmeVars,
                   railVars, directVars, playVars>>

DecodeVietnamese ==
    /\ vnEncoded.status = "ok"
    /\ vnDecoded.status = "none"
    /\ vnDecoded' = [status |-> "ok",
                     text |-> decodeVietnamese(vnEncoded.text, caesarIn.shift).text,
                     steps |-> solveDecodeVietnamese(vnEncoded.text, caesarIn.shift)]
    /\ UNCHANGED <<caesarIn, caesarEncoded, caesarDecoded, vnEncoded, rsaVars, fmeVars,
                   railVars, directVars, playVars>>

CaesarNext ==
    \/ Encode
    \/ Decode
    \/ EncodeVietnamese
    \/ DecodeVietnamese

SpecCaesar == CaesarInit /\ [][CaesarNext]_vars

(***************************************************************************)
(* One RSA operation called directly with any operand under a generated    *)
(* key pair, then the matching inverse operation applied to its output.    *)
(***************************************************************************)
OpsInit ==
    /\ \E p \in 0 .. MaxP, q \in 0 .. MaxP, e \in 0 .. MaxE :
          LET generated == generateKeyPair(p, q, e)
          IN  /\ generated.status = "ok"
              /\ opsIn \in [operation : {"encrypt", "decrypt", "sign", "verify"},
                             value : -1 .. MaxMessage,
                             keyPair : {generated.keyPair}]
    /\ opsResult = NotCalled
    /\ opsInverse = NotCalled
    /\ ExpIdle
    /\ InvIdle
    /\ RsaIdle
    /\ FmeIdle
    /\ RailIdle
    /\ CaesarIdle
    /\ PlayIdle
    /\ OtherIdle

OpEncrypt ==
    /\ opsIn.operation = "encrypt"
    /\ opsResult.status = "none"
    /\ opsResult' = RsaCipher_encrypt(opsIn.value, opsIn.keyPair.publicKey)
    /\ UNCHANGED <<opsIn, opsInverse, expVars, invVars, rsaVars, fmeVars, railVars,
                   caesarVars, playVars, otherVars>>

OpDecrypt ==
    /\ opsIn.operation = "decrypt"
    /\ opsResult.status = "none"
    /\ opsResult' = RsaCipher_decrypt(opsIn.value, opsIn.keyPair.privateKey)
    /\ UNCHANGED <<opsIn, opsInverse, expVars, invVars, rsaVars, fmeVars, railVars,
                   caesarVars, playVars, otherVars>>

OpSign ==
    /\ opsIn.operation = "sign"
    /\ opsResult.status = "none"
    /\ opsResult' = RsaCipher_sign(opsIn.value, opsIn.keyPair.privateKey)
    /\ UNCHANGED <<opsIn, opsInverse, expVars, invVars, rsaVars, fmeVars, railVars,
                   caesarVars, playVars, otherVars>>

OpVerify ==
    /\ opsIn.operation = "verify"
    /\ opsResult.status = "none"
    /\ opsResult' = RsaCipher_verify(opsIn.value, opsIn.keyPair.publicKey)
    /\ UNCHANGED <<opsIn, opsInverse, expVars, invVars, rsaVars, fmeVars, railVars,
                   caesarVars, playVars, otherVars>>

DecryptOfEncrypted ==
    /\ opsIn.operation = "encrypt"
    /\ opsResult.status = "ok"
    /\ opsInverse.status = "none"
    /\ opsInverse' = RsaCipher_decrypt(opsResult.result, opsIn.keyPair.privateKey)
    /\ UNCHANGED <<opsIn, opsResult, expVars, invVars, rsaVars, fmeVars, railVars,
                   caesarVars, playVars, otherVars>>

EncryptOfDecrypted ==
    /\ opsIn.operation = "decrypt"
    /\ opsResult.status = "ok"
    /\ opsInverse.status = "none"
    /\ opsInverse' = RsaCipher_encrypt(opsResult.result, opsIn.keyPair.publicKey)
    /\ UNCHANGED <<opsIn, opsResult, expVars, invVars, rsaVars, fmeVars, railVars,
                   caesarVars, playVars, otherVars>>

VerifyOfSigned ==
    /\ opsIn.operation = "sign"
    /\ opsResult.status = "ok"
    /\ opsInverse.status = "none"
    /\ opsInverse' = RsaCipher_verify(opsResult.result, opsIn.keyPair.publicKey)
    /\ UNCHANGED <<opsIn, opsResult, expVars, invVars, rsaVars, fmeVars, railVars,
                   caesarVars, playVars, otherVars>>

SignOfVerified ==
    /\ opsIn.operation = "verify"
    /\ opsResult.status = "ok"
    /\ opsInverse.status = "none"
    /\ opsInverse' = RsaCipher_sign(opsResult.result, opsIn.keyPair.privateKey)
    /\ UNCHANGED <<opsIn, opsResult, expVars, invVars, rsaVars, fmeVars, railVars,
                   caesarVars, playVars, otherVars>>

OpsNext ==
    \/ OpEncrypt
    \/ OpDecrypt
    \/ OpSign
    \/ OpVerify
    \/ DecryptOfEncrypted
    \/ EncryptOfDecrypted
    \/ VerifyOfSigned
    \/ SignOfVerified

SpecRsaOps == OpsInit /\ [][OpsNext]_vars

(***************************************************************************)
(* getValidPublicExponents called with any p, q and limit (the RSA page    *)
(* calls it without a limit).                                              *)
(***************************************************************************)
ExpInit ==
    /\ expIn \in [p : 0 .. MaxP, q : 0 .. MaxP,
                   limit : {<<>>} \cup {<<k>> : k \in 0 .. MaxLimit}]
    /\ validExponents = NotCalled
    /\ OpsIdle
    /\ InvIdle
    /\ RsaIdle
    /\ FmeIdle
    /\ RailIdle
    /\ CaesarIdle
    /\ PlayIdle
    /\ OtherIdle

GetValidPublicExponents ==
    /\ validExponents.status = "none"
    /\ validExponents' =
          [status |-> "ok",
           list |-> getValidPublicExponents(expIn.p, expIn.q, expIn.limit)]
    /\ UNCHANGED <<expIn, opsVars, invVars, rsaVars, fmeVars, railVars, caesarVars,
                   playVars, otherVars>>

ExpNext == GetValidPublicExponents

SpecExponents == ExpInit /\ [][ExpNext]_vars

(***************************************************************************)
(* modInverseWithSteps called directly.                                    *)
(***************************************************************************)
InvInit ==
    /\ invIn \in [a : 1 .. MaxInverseA, m : 2 .. MaxInverseM]
    /\ invResult = NotCalled
    /\ OpsIdle
    /\ ExpIdle
    /\ RsaIdle
    /\ FmeIdle
    /\ RailIdle
    /\ CaesarIdle
    /\ PlayIdle
    /\ OtherIdle

ModInverse ==
    /\ invResult.status = "none"
    /\ LET out == modInverseWithSteps(invIn.a, invIn.m)
       IN  invResult' = [status |-> "ok", d |-> out.d, steps |-> out.steps]
    /\ UNCHANGED <<invIn, opsVars, expVars, rsaVars, fmeVars, railVars, caesarVars,
                   playVars, otherVars>>

InvNext == ModInverse

SpecInverse == InvInit /\ [][InvNext]_vars

(***************************************************************************)
(* The Playfair calls: the matrix of a key, then one digraph encrypted     *)
(* with it, as PlayfairCipher.encrypt does for each digraph.               *)
(***************************************************************************)
\* the characters the keys are drawn from: b, i, Z and J (upper case, and a
\* j), 1 (not a letter)
PlayKeyChars == {98, 105, 90, 74, 49}

\* the letters the digraphs are drawn from: a .. z, as processPlaintext
\* leaves them, and j
PlayLetters == 97 .. 122

PlayInit ==
    /\ playIn \in [key : SeqsUpTo(PlayKeyChars, MaxPlayKey),
                    digraph : {<<x, y>> : x \in PlayLetters, y \in PlayLetters}]
    /\ playMatrix = NotCalled
    /\ playDigraph = NotCalled
    /\ DirectIdle
    /\ RsaIdle
    /\ FmeIdle
    /\ RailIdle
    /\ CaesarIdle

GenerateMatrix ==
    /\ playMatrix.status = "none"
    /\ playMatrix' = [status |-> "ok", matrix |-> generateMatrix(playIn.key)]
    /\ UNCHANGED <<playIn, playDigraph, directVars, rsaVars, fmeVars, railVars,
                   caesarVars>>

EncryptDigraph ==
    /\ playMatrix.status = "ok"
    /\ playDigraph.status = "none"
    /\ playDigraph' = encryptDigraph(playMatrix.matrix, playIn.digraph)
    /\ UNCHANGED <<playIn, playMatrix, directVars, rsaVars, fmeVars, railVars,
                   caesarVars>>

PlayNext ==
    \/ GenerateMatrix
    \/ EncryptDigraph

SpecPlayfair == PlayInit /\ [][PlayNext]_vars

(***************************************************************************)
(* isPrime called directly.                                                *)
(***************************************************************************)
PrimeInit ==
    /\ primeIn \in (-3) .. MaxPrimeN
    /\ primeResult = NotCalled
    /\ PlayTextIdle
    /\ PageIdle
    /\ OpsIdle
    /\ ExpIdle
    /\ InvIdle
    /\ RsaIdle
    /\ FmeIdle
    /\ RailIdle
    /\ CaesarIdle
    /\ PlayIdle

IsPrime ==
    /\ primeResult.status = "none"
    /\ primeResult' = [status |-> "ok", prime |-> isPrime(primeIn)]
    /\ UNCHANGED <<primeIn, playTextVars, pageVars, opsVars, expVars, invVars, rsaVars, fmeVars,
                   railVars, caesarVars, playVars>>

PrimeNext == IsPrime

SpecPrime == PrimeInit /\ [][PrimeNext]_vars

(***************************************************************************)
(* The Playfair page: processPlaintext and getDigraphs called directly     *)
(* with any arguments, and the page's Encrypt button.                      *)
(***************************************************************************)
\* the characters of the plaintexts: a, x, J (lower-cased to j, then i) and
\* the space
PlayTextChars == {97, 120, 74, 32}

\* the keys: none, a blank one, b, and iJ
PlayTextKeys == {<<>>, <<32>>, <<98>>, <<105, 74>>}

\* the separators: the page's default x, X, j, the digit 1, and the strings
\* of no and of two characters that validateInputs rejects
PlaySeparators == {<<120>>, <<88>>, <<106>>, <<49>>, <<>>, <<120, 120>>}

PlayTextInit ==
    /\ playTextIn \in [key : PlayTextKeys,
                         plaintext : SeqsUpTo(PlayTextChars, MaxPlayText),
                         separateChar : PlaySeparators,
                         insertCharAtLast : BOOLEAN]
    /\ playProcessed = NotCalled
    /\ playEncrypted = NotCalled
    /\ PrimeIdle
    /\ PageIdle
    /\ OpsIdle
    /\ ExpIdle
    /\ InvIdle
    /\ RsaIdle
    /\ FmeIdle
    /\ RailIdle
    /\ CaesarIdle
    /\ PlayIdle

ProcessPlaintext ==
    /\ playProcessed.status = "none"
    /\ LET text == processPlaintext(playTextIn.plaintext, playTextIn.separateChar,
                                    playTextIn.insertCharAtLast)
       IN  playProcessed' = [status |-> "ok", text |-> text,
                             digraphs |-> getDigraphs(text)]
    /\ UNCHANGED <<playTextIn, playEncrypted, primeVars, pageVars, opsVars, expVars, invVars,
                   rsaVars, fmeVars, railVars, caesarVars, playVars>>

HandleEncrypt ==
    /\ playProcessed.status = "ok"
    /\ playEncrypted.status = "none"
    /\ playEncrypted' = handleEncrypt(playTextIn)
    /\ UNCHANGED <<playTextIn, playProcessed, primeVars, pageVars, opsVars, expVars, invVars,
                   rsaVars, fmeVars, railVars, caesarVars, playVars>>

PlayTextNext ==
    \/ ProcessPlaintext
    \/ HandleEncrypt

SpecPlayfairText == PlayTextInit /\ [][PlayTextNext]_vars

(***************************************************************************)
(* The RSA page: the user changes p, q, e, the message or the security     *)
(* mode, presses Generate Keys or presses Calculate.                       *)
(***************************************************************************)
PageInit ==
    /\ rsaPage = mountedPage
    /\ PrimeIdle
    /\ PlayTextIdle
    /\ OpsIdle
    /\ ExpIdle
    /\ InvIdle
    /\ RsaIdle
    /\ FmeIdle
    /\ RailIdle
    /\ CaesarIdle
    /\ PlayIdle

PageRest == <<primeVars, playTextVars, opsVars, expVars, invVars, rsaVars, fmeVars,
              railVars, caesarVars, playVars>>

PageSetP ==
    /\ \E value \in 1 .. MaxPageP :
          /\ value # rsaPage.p
          /\ rsaPage' = runEffects([rsaPage EXCEPT !.p = value])
    /\ UNCHANGED PageRest

PageSetQ ==
    /\ \E value \in 1 .. MaxPageP :
          /\ value # rsaPage.q
          /\ rsaPage' = runEffects([rsaPage EXCEPT !.q = value])
    /\ UNCHANGED PageRest

\* the select offers the elements of possibleE
PageSetE ==
    /\ \E i \in 1 .. Len(rsaPage.possibleE) :
          /\ rsaPage.possibleE[i] # rsaPage.e
          /\ rsaPage' = runEffects([rsaPage EXCEPT !.e = rsaPage.possibleE[i]])
    /\ UNCHANGED PageRest

PageGenerateKeys ==
    /\ rsaPage' = generateKeys(rsaPage)
    /\ UNCHANGED PageRest

PageSetMessage ==
    /\ operationsShown(rsaPage)
    /\ \E value \in 0 .. MaxPageMessage :
          rsaPage' = [rsaPage EXCEPT !.message = value]
    /\ UNCHANGED PageRest

PageSetSecurityMode ==
    /\ operationsShown(rsaPage)
    /\ \E mode \in {"confidentiality", "authenticity", "both"} :
          rsaPage' = [rsaPage EXCEPT !.securityMode = mode]
    /\ UNCHANGED PageRest

PagePerformOperations ==
    /\ operationsShown(rsaPage)
    /\ rsaPage' = performOperations(rsaPage)
    /\ UNCHANGED PageRest

PageNext ==
    \/ PageSetP
    \/ PageSetQ
    \/ PageSetE
    \/ PageGenerateKeys
    \/ PageSetMessage
    \/ PageSetSecurityMode
    \/ PagePerformOperations

SpecRsaPage == PageInit /\ [][PageNext]_vars

(***************************************************************************)
(* Mathematical definitions the properties are stated with (independent of *)
(* the code's own gcd, isPrime and modExpWithSteps).                       *)
(***************************************************************************)
MathGcd(a, b) ==
    CHOOSE g \in 1 .. b :
        /\ a % g = 0 /\ b % g = 0
        /\ \A h \in 1 .. b : (a % h = 0 /\ b % h = 0) => h <= g

MathPrime(n) == n > 1 /\ \A k \in 2 .. (n - 1) : n % k # 0

RECURSIVE PowMod(_, _, _)
PowMod(b, x, n) == IF x = 0 THEN 1 % n ELSE (b * PowMod(b, x - 1, n)) % n

SetMin(S) == CHOOSE x \in S : \A y \in S : x <= y

DistinctPrimes == MathPrime(rsaIn.p) /\ MathPrime(rsaIn.q) /\ rsaIn.p # rsaIn.q
Totient == (rsaIn.p - 1) * (rsaIn.q - 1)

(***************************************************************************)
(* RSA properties (SpecRsa, SpecFme)                                       *)
(***************************************************************************)
\* C1: for every key pair generateKeyPair returns and every message m in
\* [0, n), decrypt(encrypt(m)).result = m and verify(sign(m)).result = m.
C1_RoundTrip ==
    /\ decryptResult.status # "none" =>
          decryptResult.status = "ok" /\ decryptResult.result = rsaIn.message
    /\ verifyResult.status # "none" =>
          verifyResult.status = "ok" /\ verifyResult.result = rsaIn.message

\* C2: modExpWithSteps(base, exponent, modulus).result is the exact value
\* base^exponent mod modulus, and modulus 1 gives 0 with an empty trace.
C2_ModExpExact ==
    fmeResult.status = "ok" =>
        /\ fmeResult.result = PowMod(fmeIn.base, fmeIn.exponent, fmeIn.modulus)
        /\ fmeIn.modulus = 1 => fmeResult.result = 0 /\ fmeResult.steps = <<>>

\* C6: a returned key generation result has n = p*q, totient = (p-1)(q-1),
\* gcd(e, totient) = 1, (d*e) mod totient = 1, 0 <= d < totient and the key
\* pair {e, n}, {d, n}; p = 11, q = 3, e = 3 gives n = 33, totient = 20, d = 7.
C6_KeyParameters ==
    keyGenResult.status = "ok" =>
        LET P == keyGenResult.params IN
        /\ P.p = rsaIn.p /\ P.q = rsaIn.q
        /\ P.n = rsaIn.p * rsaIn.q
        /\ P.totient = (rsaIn.p - 1) * (rsaIn.q - 1)
        /\ rsaIn.e # 0 => P.e = rsaIn.e
        /\ MathGcd(P.e, P.totient) = 1
        /\ (P.d * P.e) % P.totient = 1
        /\ 0 <= P.d /\ P.d < P.totient
        /\ keyGenResult.keyPair = [publicKey |-> [e |-> P.e, n |-> P.n],
                                   privateKey |-> [d |-> P.d, n |-> P.n]]
        /\ (rsaIn.p = 11 /\ rsaIn.q = 3 /\ rsaIn.e = 3) =>
               (P.n = 33 /\ P.totient = 20 /\ P.d = 7)

\* C6 witness: the worked example p = 11, q = 3, e = 3 has been generated.
C6_Witness ==
    /\ keyGenResult.status = "ok"
    /\ rsaIn.p = 11 /\ rsaIn.q = 3 /\ rsaIn.e = 3
    /\ keyGenResult.params.d = 7

\* C7: the combined mode recovers the plaintext:
\* decryptWithBoth(encryptWithBoth(m).result).result = m, where
\* encryptWithBoth's result is modExp(sign(m).result, e, n).
C7_CombinedRoundTrip ==
    /\ bothEncResult.status = "ok" =>
          bothEncResult.result =
              modExpWithSteps(
                  RsaCipher_sign(rsaIn.message, keyGenResult.keyPair.privateKey).result,
                  keyGenResult.keyPair.publicKey.e,
                  keyGenResult.keyPair.publicKey.n).result
    /\ bothDecResult.status # "none" =>
          bothDecResult.status = "ok" /\ bothDecResult.result = rsaIn.message

\* C8: generateKeyPair fails with the non-prime error whenever p or q is not
\* prime and with the duplicate-primes error whenever p and q are the same
\* prime; it then returns no parameters, no key pair and no trace, whatever e.
C8_PrimeErrors ==
    keyGenResult.status # "none" =>
        /\ ~MathPrime(rsaIn.p) => keyGenResult = Threw(ErrPNotPrime)
        /\ (MathPrime(rsaIn.p) /\ ~MathPrime(rsaIn.q)) =>
               keyGenResult = Threw(ErrQNotPrime)
        /\ (MathPrime(rsaIn.p) /\ rsaIn.q = rsaIn.p) =>
               keyGenResult = Threw(ErrSamePrimes)

\* C8 witness: the same prime twice, with an exponent supplied, was refused.
C8_Witness ==
    /\ keyGenResult = Threw(ErrSamePrimes)
    /\ MathPrime(rsaIn.p) /\ rsaIn.q = rsaIn.p /\ rsaIn.e # 0

\* C9 as stated: for distinct primes and every supplied e with
\* gcd(e, totient) # 1, generateKeyPair fails with the not-coprime error.
\* (gcd(0, totient) = totient, which is not 1.)
C9_Original ==
    (keyGenResult.status # "none" /\ DistinctPrimes
       /\ (IF rsaIn.e = 0 THEN Totient ELSE MathGcd(rsaIn.e, Totient)) # 1) =>
        keyGenResult = Threw(ErrNotCoprime)

\* C9 amended: for distinct primes and every supplied e other than 0 with
\* gcd(e, totient) # 1, generateKeyPair fails with the not-coprime error and
\* returns no key (an e of 0 counts as omitted).
C9_NotCoprimeRejected ==
    (keyGenResult.status # "none" /\ DistinctPrimes /\ rsaIn.e # 0
       /\ MathGcd(rsaIn.e, Totient) # 1) =>
        keyGenResult = Threw(ErrNotCoprime)

\* C9 witness: a supplied e sharing a factor with the totient was refused.
C9_Witness ==
    /\ keyGenResult = Threw(ErrNotCoprime)
    /\ DistinctPrimes /\ rsaIn.e > 1 /\ MathGcd(rsaIn.e, Totient) > 1

\* the odd integers from 3 to hi that are coprime to the totient
OddCoprimes(hi) ==
    {i \in 3 .. hi : i % 2 = 1 /\ MathGcd(i, Totient) = 1}

\* C10 as stated: with e omitted, generateKeyPair picks the smallest odd
\* e >= 3 coprime to the totient and fails with the no-valid-exponent error
\* only when there is no such integer (totient + 1 is always one).
C10_Original ==
    (keyGenResult.status # "none" /\ DistinctPrimes /\ rsaIn.e = 0) =>
        IF OddCoprimes(Totient + 1) # {}
        THEN /\ keyGenResult.status = "ok"
             /\ keyGenResult.params.e = SetMin(OddCoprimes(Totient + 1))
        ELSE keyGenResult = Threw(ErrNoExponent)

\* C10 amended: with e omitted, generateKeyPair picks the smallest odd e
\* with 3 <= e < totient coprime to the totient; it fails with the
\* no-valid-exponent error exactly when there is no such e, which is the
\* case for totient = 2 (p, q = 2, 3) and never for totient > 2.
C10_SmallestOddExponent ==
    (keyGenResult.status # "none" /\ DistinctPrimes /\ rsaIn.e = 0) =>
        /\ IF OddCoprimes(Totient - 1) # {}
           THEN /\ keyGenResult.status = "ok"
                /\ keyGenResult.params.e = SetMin(OddCoprimes(Totient - 1))
           ELSE keyGenResult = Threw(ErrNoExponent)
        /\ OddCoprimes(Totient - 1) = {} <=> Totient = 2

\* C10 witness: the scan skipped 3 (not coprime) and picked a later odd e.
C10_Witness ==
    /\ rsaIn.e = 0 /\ DistinctPrimes
    /\ keyGenResult.status = "ok"
    /\ keyGenResult.params.e > 3

(***************************************************************************)
(* Rail Fence properties (SpecRailFence)                                   *)
(***************************************************************************)
\* C3: for every key of at least one character, every whitespace-free text
\* x and every r >= 1, decrypt(encrypt(x, key, r).ciphertext, key, r) = x.
C3_RailRoundTrip ==
    (railDecrypted.status = "ok" /\ railIn.rounds >= 1
       /\ \A i \in 1 .. Len(railIn.text) : ~IsWhitespace(railIn.text[i])) =>
        railDecrypted.text = railIn.text

(***************************************************************************)
(* Caesar properties (SpecCaesar)                                          *)
(***************************************************************************)
\* C4: under the Latin alphabet, for every text x and every shift s with
\* 1 <= s <= 25, decode(encode(x, s), s) = x.
C4_LatinRoundTrip ==
    (caesarDecoded.status = "ok" /\ caesarIn.shift <= ALPHABET_SIZE - 1) =>
        caesarDecoded.text = caesarIn.text

\* C4 witness: a text with an upper-case and a lower-case letter that the
\* shift wrapped around the end of the alphabet has been decoded.
C4_Witness ==
    /\ caesarDecoded.status = "ok"
    /\ caesarIn.text = <<90, 122>>
    /\ caesarIn.shift = 3
    /\ caesarEncoded.text = <<67, 99>>

\* a character the accented cipher maps although it is not itself one of
\* the 29 symbols in upper or lower case (a tone-marked letter, dotless i)
IsVnSymbol(ch) ==
    \E i \in 1 .. VN_ALPHABET_SIZE : ch = VN_ALPHABET[i] \/ ch = toLowerCase(VN_ALPHABET[i])
IsVnMapped(ch) == getVnCharValue(ch) # -1

\* C5 as stated: under the accented alphabet, for every text x and every
\* shift s with 1 <= s <= 28, decodeVietnamese(encodeVietnamese(x, s), s) = x.
C5_Original ==
    vnDecoded.status = "ok" => vnDecoded.text = caesarIn.text

\* C5 amended: the round trip returns x for every text x each of whose
\* characters is one of the 29 symbols (upper or lower case) or a character
\* the cipher leaves unchanged; a tone-marked letter comes back as its base
\* symbol, in the case of the original, without the tone mark.
C5_VnRoundTrip ==
    vnDecoded.status = "ok" =>
        /\ Len(vnDecoded.text) = Len(caesarIn.text)
        /\ \A i \in 1 .. Len(caesarIn.text) :
              LET ch == caesarIn.text[i] IN
              /\ (IsVnSymbol(ch) \/ ~IsVnMapped(ch)) => vnDecoded.text[i] = ch
              /\ (\E g \in DiacriticGroups : ch \in g.marked) =>
                    \E g \in DiacriticGroups :
                        ch \in g.marked /\ vnDecoded.text[i] = g.base

\* C5 witness: accented symbols of both cases, shifted around the end of
\* the 29-symbol alphabet, have been decoded.
C5_Witness ==
    /\ vnDecoded.status = "ok"
    /\ caesarIn.text = <<432, 258>>
    /\ caesarIn.shift = 28
    /\ vnEncoded.text = <<118, 65>>

(***************************************************************************)
(* RSA operations called directly (SpecRsaOps)                             *)
(***************************************************************************)
\* the exponent and the error message of the operation that was called
OpsExponent ==
    IF opsIn.operation \in {"encrypt", "verify"}
    THEN opsIn.keyPair.publicKey.e
    ELSE opsIn.keyPair.privateKey.d

OpsRangeError ==
    CASE opsIn.operation = "decrypt" -> ErrCiphertextRange
      [] opsIn.operation = "verify" -> ErrSignatureRange
      [] OTHER -> ErrMessageRange

\* C11: each of encrypt, decrypt, sign and verify fails with its out-of-range
\* error exactly when its operand v has v < 0 or v >= n; otherwise its result
\* has the input field v, an output in [0, n) and the modExp trace as steps;
\* the matching inverse operation applied to the output never raises the
\* out-of-range error.
C11_OperandRange ==
    LET v == opsIn.value
        n == opsIn.keyPair.publicKey.n
    IN  /\ opsResult.status # "none" =>
              /\ (v < 0 \/ v >= n) <=> (opsResult.status = "threw")
              /\ opsResult.status = "threw" => opsResult = Threw(OpsRangeError)
              /\ opsResult.status = "ok" =>
                    /\ opsResult.message = v
                    /\ opsResult.result \in 0 .. (n - 1)
                    /\ opsResult.steps = modExpWithSteps(v, OpsExponent, n).steps
        /\ opsInverse.status # "none" =>
              /\ opsInverse.status = "ok"
              /\ opsInverse.message = opsResult.result

\* C11 witness: verify accepted the operand n - 1 and sign was then applied
\* to its output without an error.
C11_Witness ==
    /\ opsIn.operation = "verify"
    /\ opsIn.value = opsIn.keyPair.publicKey.n - 1
    /\ opsResult.status = "ok"
    /\ opsInverse.status = "ok"

(***************************************************************************)
(* The trace of modExpWithSteps (SpecFme)                                  *)
(***************************************************************************)
\* the number of binary digits of n (one digit for 0), and digit k counted
\* from the most significant one
RECURSIVE BitLength(_)
BitLength(n) == IF n < 2 THEN 1 ELSE 1 + BitLength(n \div 2)

RECURSIVE Pow2(_)
Pow2(k) == IF k = 0 THEN 1 ELSE 2 * Pow2(k - 1)

BinaryDigit(n, k) == (n \div Pow2(BitLength(n) - k)) % 2

\* C12: for every exponent >= 0 and modulus >= 2 the trace has as many steps
\* as the exponent has binary digits, one per digit from the most to the
\* least significant; modExp(9, 17, 77) has 5 steps and yields 4.
C12_TraceLength ==
    (fmeResult.status = "ok" /\ fmeIn.modulus >= 2) =>
        /\ Len(fmeResult.steps) = BitLength(fmeIn.exponent)
        /\ \A k \in 1 .. Len(fmeResult.steps) :
              fmeResult.steps[k].bit = BinaryDigit(fmeIn.exponent, k)
        /\ (fmeIn.base = 9 /\ fmeIn.exponent = 17 /\ fmeIn.modulus = 77) =>
              (Len(fmeResult.steps) = 5 /\ fmeResult.result = 4)

\* C12 witness: modExp(9, 17, 77) has been computed.
C12_Witness ==
    /\ fmeIn = [base |-> 9, exponent |-> 17, modulus |-> 77]
    /\ fmeResult.status = "ok"
    /\ Len(fmeResult.steps) = 5

LimitInForce == IF expIn.limit = <<>> THEN 10 ELSE expIn.limit[1]

CoprimeExponents ==
    LET totient == (expIn.p - 1) * (expIn.q - 1)
    IN  {e \in 2 .. (totient - 1) : MathGcd(e, totient) = 1}

\* the list is ascending and holds the smallest k coprime exponents
IsSmallestCoprimes(list, k) ==
    /\ Len(list) = k
    /\ \A i \in 1 .. Len(list) : list[i] \in CoprimeExponents
    /\ \A i \in 1 .. (Len(list) - 1) : list[i] < list[i + 1]
    /\ \A e \in CoprimeExponents :
          (\E i \in 1 .. Len(list) : list[i] = e)
          \/ (\A i \in 1 .. Len(list) : list[i] < e)

\* C13: getValidPublicExponents(p, q, limit) is empty when p or q is not
\* prime; otherwise it holds, ascending and without gaps, the smallest e in
\* 2 .. totient - 1 coprime to the totient, stopping when limit values are
\* collected: never more than limit elements (limit defaults to 10), and
\* every such e when fewer than limit exist.
C13_ValidExponents ==
    validExponents.status = "ok" =>
        IF ~MathPrime(expIn.p) \/ ~MathPrime(expIn.q)
        THEN validExponents.list = <<>>
        ELSE /\ Len(validExponents.list) <= LimitInForce
             /\ IF Cardinality(CoprimeExponents) < LimitInForce
                THEN IsSmallestCoprimes(validExponents.list,
                                        Cardinality(CoprimeExponents))
                ELSE IsSmallestCoprimes(validExponents.list, LimitInForce)

\* for a limit of at least 1, supplied or defaulted, the list is as C13 says
C13_PositiveLimit ==
    LimitInForce >= 1 => C13_ValidExponents

(***************************************************************************)
(* The trace of modInverseWithSteps (SpecInverse)                          *)
(***************************************************************************)
\* floor(x / y) for x >= 0 and y > 0, by its defining inequality
FloorDiv(x, y) == CHOOSE k \in 0 .. x : k * y <= x /\ x < (k + 1) * y

\* C19: for every a >= 1 and m >= 2 the call returns; its trace starts with
\* (r1, r2, t1, t2) = (m, a, 0, 1); every row has q = floor(r1 / r2),
\* r = r1 - q*r2 and t = t1 - q*t2; each following row's (r1, r2, t1, t2) is
\* the previous row's (r2, r, t2, t); the trace ends at the first row whose
\* r is 0.  For (a, m) = (3, 20) the rows (q, r1, r2, r, t1, t2, t) are
\* (6,20,3,2,0,1,-6), (1,3,2,1,1,-6,7), (2,2,1,0,-6,7,-20), the inverse 7.
C19_EuclideanTrace ==
    invResult.status = "ok" =>
        LET st == invResult.steps
            L == Len(st)
        IN  /\ L >= 1
            /\ st[1].r1 = invIn.m /\ st[1].r2 = invIn.a
            /\ st[1].t1 = 0 /\ st[1].t2 = 1
            /\ \A k \in 1 .. L :
                  /\ st[k].q = FloorDiv(st[k].r1, st[k].r2)
                  /\ st[k].r = st[k].r1 - st[k].q * st[k].r2
                  /\ st[k].t = st[k].t1 - st[k].q * st[k].t2
                  /\ k < L =>
                        /\ st[k + 1].r1 = st[k].r2 /\ st[k + 1].r2 = st[k].r
                        /\ st[k + 1].t1 = st[k].t2 /\ st[k + 1].t2 = st[k].t
                  /\ (st[k].r = 0) <=> (k = L)
            /\ (invIn.a = 3 /\ invIn.m = 20) =>
                  /\ st = << [q |-> 6, r1 |-> 20, r2 |-> 3, r |-> 2,
                               t1 |-> 0, t2 |-> 1, t |-> -6],
                             [q |-> 1, r1 |-> 3, r2 |-> 2, r |-> 1,
                               t1 |-> 1, t2 |-> -6, t |-> 7],
                             [q |-> 2, r1 |-> 2, r2 |-> 1, r |-> 0,
                               t1 |-> -6, t2 |-> 7, t |-> -20] >>
                  /\ invResult.d = 7

\* C19 witness: modInverseWithSteps(3, 20) has returned its three rows.
C19_Witness ==
    /\ invIn = [a |-> 3, m |-> 20]
    /\ invResult.status = "ok"
    /\ Len(invResult.steps) = 3

(***************************************************************************)
(* Playfair properties (SpecPlayfair)                                      *)
(***************************************************************************)
\* the 25 letters a .. z without j
Letters25 == (97 .. 122) \ {106}

\* a key character read as a matrix letter: lower-cased, j as i; 0 for a
\* character that is not a letter
AsMatrixLetter(ch) ==
    LET lower == IF ch >= 65 /\ ch <= 90 THEN ch + 32 ELSE ch
    IN  IF lower < 97 \/ lower > 122 THEN 0
        ELSE IF lower = 106 THEN 105 ELSE lower

\* the letters of the key, and the place of a letter's first occurrence
KeyLetterSet == {AsMatrixLetter(playIn.key[i]) : i \in 1 .. Len(playIn.key)} \ {0}

FirstOccurrence(letter) ==
    SetMin({i \in 1 .. Len(playIn.key) : AsMatrixLetter(playIn.key[i]) = letter})

\* cell k of the matrix in row-major order, k = 1 .. 25
Cell(k) == playMatrix.matrix[((k - 1) \div 5) + 1][((k - 1) % 5) + 1]

\* C14: for every key, generateMatrix returns a 5x5 grid whose 25 cells are
\* exactly the 25 letters a..z without j, each once: first the key's letters
\* (lower-cased, non-letters dropped, j read as i) in first-occurrence
\* order, then the remaining letters in alphabetical order, row by row.
C14_Matrix ==
    playMatrix.status = "ok" =>
        LET D == Cardinality(KeyLetterSet)
        IN  /\ Len(playMatrix.matrix) = 5
            /\ \A r \in 1 .. 5 : Len(playMatrix.matrix[r]) = 5
            /\ {Cell(k) : k \in 1 .. 25} = Letters25
            /\ \A k \in 1 .. D : Cell(k) \in KeyLetterSet
            /\ \A k \in 1 .. D : \A l \in (k + 1) .. D :
                  FirstOccurrence(Cell(k)) < FirstOccurrence(Cell(l))
            /\ \A k \in (D + 1) .. 25 : \A l \in (k + 1) .. 25 : Cell(k) < Cell(l)

\* C14 witness: the matrix of the key "ZJ" starts with z, i and goes on
\* with a, b, c.
C14_Witness ==
    /\ playIn.key = <<90, 74>>
    /\ playMatrix.status = "ok"
    /\ playMatrix.matrix[1] = <<122, 105, 97, 98, 99>>

\* the position (row, col), from 0, of a letter in the matrix (j as i)
PositionOf(letter) ==
    CHOOSE rc \in (0 .. 4) \X (0 .. 4) :
        playMatrix.matrix[rc[1] + 1][rc[2] + 1] = (IF letter = 106 THEN 105 ELSE letter)

LetterAt(row, col) == playMatrix.matrix[row + 1][col + 1]

\* C15: for letters at (r1, c1) and (r2, c2) encryptDigraph returns, if
\* r1 = r2, the letters at (r1, (c1+1) mod 5) and (r2, (c2+1) mod 5); else
\* if c1 = c2, those at ((r1+1) mod 5, c1) and ((r2+1) mod 5, c2);
\* otherwise those at (r1, c2) and (r2, c1).
C15_DigraphRule ==
    playDigraph.status # "none" =>
        LET p1 == PositionOf(playIn.digraph[1])
            p2 == PositionOf(playIn.digraph[2])
        IN  /\ playDigraph.status = "ok"
            /\ playDigraph.text =
                  IF p1[1] = p2[1]
                  THEN <<LetterAt(p1[1], (p1[2] + 1) % 5), LetterAt(p2[1], (p2[2] + 1) % 5)>>
                  ELSE IF p1[2] = p2[2]
                  THEN <<LetterAt((p1[1] + 1) % 5, p1[2]), LetterAt((p2[1] + 1) % 5, p2[2])>>
                  ELSE <<LetterAt(p1[1], p2[2]), LetterAt(p2[1], p1[2])>>

\* C15 witness: under the empty key "de", in one row, became "ea" (the
\* column wrapped around).
C15_Witness ==
    /\ playIn = [key |-> <<>>, digraph |-> <<100, 101>>]
    /\ playDigraph.status = "ok"
    /\ playDigraph.text = <<101, 97>>

\* the standard decryption rule on the same matrix
DecryptPair(pair) ==
    LET p1 == PositionOf(pair[1])
        p2 == PositionOf(pair[2])
    IN  IF p1[1] = p2[1]
        THEN <<LetterAt(p1[1], (p1[2] + 4) % 5), LetterAt(p2[1], (p2[2] + 4) % 5)>>
        ELSE IF p1[2] = p2[2]
        THEN <<LetterAt((p1[1] + 4) % 5, p1[2]), LetterAt((p2[1] + 4) % 5, p2[2])>>
        ELSE <<LetterAt(p1[1], p2[2]), LetterAt(p2[1], p1[2])>>

\* C16: the standard decryption rule (same row: columns minus one mod 5;
\* same column: rows minus one mod 5; otherwise swap the columns) applied on
\* the same matrix to encryptDigraph(matrix, pair) returns the original
\* pair, with j read as i.
C16_DigraphInverse ==
    playDigraph.status # "none" =>
        /\ playDigraph.status = "ok"
        /\ DecryptPair(playDigraph.text) =
              [i \in 1 .. 2 |-> IF playIn.digraph[i] = 106 THEN 105
                                ELSE playIn.digraph[i]]

\* C16 witness: under the key "b" the pair "jz", a rectangle with a j, was
\* encrypted.
C16_Witness ==
    /\ playIn = [key |-> <<98>>, digraph |-> <<106, 122>>]
    /\ playDigraph.status = "ok"
    /\ PositionOf(106)[1] # PositionOf(122)[1]
    /\ PositionOf(106)[2] # PositionOf(122)[2]

(***************************************************************************)
(* Caesar letter mapping and pass-through (SpecCaesar)                     *)
(***************************************************************************)
\* a Latin letter, its index (A = 0 ... Z = 25) and the letter of an index
\* in the case of a given letter
InLatin(ch) == ch \in (65 .. 90) \cup (97 .. 122)
LatinIndex(ch) == IF ch <= 90 THEN ch - 65 ELSE ch - 97
LatinLetterLike(ch, index) == IF ch <= 90 THEN 65 + index ELSE 97 + index

\* 'Khoor Zruog'
KhoorZruog == <<75, 104, 111, 111, 114, 32, 90, 114, 117, 111, 103>>

\* C17: for every Latin letter of index v and every shift s in 1 .. 25,
\* encode outputs the letter of index (v + s) mod 26 and decode the letter
\* of index ((v - s) mod 26 + 26) mod 26, in the case of the input letter; Z
\* with shift 1 encodes to A; 'Hello World' with shift 3 encodes to
\* 'Khoor Zruog', which decodes back to 'Hello World'.
C17_LetterMapping ==
    (caesarIn.shift >= 1 /\ caesarIn.shift <= 25) =>
        /\ caesarEncoded.status = "ok" =>
              /\ \A i \in 1 .. Len(caesarIn.text) :
                    InLatin(caesarIn.text[i]) =>
                        caesarEncoded.text[i] =
                            LatinLetterLike(caesarIn.text[i],
                                (LatinIndex(caesarIn.text[i]) + caesarIn.shift) % 26)
              /\ (caesarIn.text = <<90>> /\ caesarIn.shift = 1) =>
                    caesarEncoded.text = <<65>>
              /\ (caesarIn.text = HelloWorld /\ caesarIn.shift = 3) =>
                    caesarEncoded.text = KhoorZruog
        /\ caesarDecoded.status = "ok" =>
              /\ \A i \in 1 .. Len(caesarEncoded.text) :
                    InLatin(caesarEncoded.text[i]) =>
                        caesarDecoded.text[i] =
                            LatinLetterLike(caesarEncoded.text[i],
                                (((LatinIndex(caesarEncoded.text[i]) - caesarIn.shift) % 26)
                                    + 26) % 26)
              /\ (caesarIn.text = HelloWorld /\ caesarIn.shift = 3) =>
                    caesarDecoded.text = HelloWorld

\* C17 witness: 'Hello World' was encoded with shift 3 and decoded again.
C17_Witness ==
    /\ caesarIn = [text |-> HelloWorld, shift |-> 3]
    /\ caesarDecoded.status = "ok"
    /\ caesarEncoded.text = KhoorZruog
    /\ caesarDecoded.text = HelloWorld

\* in the accented alphabet: the diacritic-stripped upper-case form is one
\* of the 29 symbols
InAccented(ch) ==
    toUpperCase(removeDiacritics(ch)) \in {VN_ALPHABET[i] : i \in 1 .. VN_ALPHABET_SIZE}

\* the positions of a text whose character is in the Latin / accented alphabet
LatinPositions(text) == {i \in 1 .. Len(text) : InLatin(text[i])}
AccentedPositions(text) == {i \in 1 .. Len(text) : InAccented(text[i])}

\* out has the length of text, repeats every character of text outside the
\* given positions, and the trace has one record per given position
PassesThrough(text, positions, out) ==
    /\ Len(out.text) = Len(text)
    /\ \A i \in (1 .. Len(text)) \ positions : out.text[i] = text[i]
    /\ Len(out.steps) = Cardinality(positions)
    /\ \A i \in positions :
          out.steps[Cardinality({j \in positions : j <= i})].resultChar
              = toUpperCase(out.text[i])

RECURSIVE NotesRows(_, _, _, _, _)
NotesRows(base, exponent, modulus, k, running) ==
    IF k > BitLength(exponent) THEN <<>>
    ELSE LET bit == BinaryDigit(exponent, k)
             squared == running * running
             reduced == squared % modulus
             product == reduced * base
             last == IF bit = 1 THEN product % modulus ELSE reduced
         IN  <<[bit |-> bit, pSquared |-> squared, pMod |-> reduced,
                pz |-> IF bit = 1 THEN <<product>> ELSE <<>>, last |-> last]>>
                 \o NotesRows(base, exponent, modulus, k + 1, last)

\* the rows of the notes for 9^17 mod 77
NotesExample ==
    << [bit |-> 1, pSquared |-> 1, pMod |-> 1, pz |-> <<9>>, last |-> 9],
       [bit |-> 0, pSquared |-> 81, pMod |-> 4, pz |-> <<>>, last |-> 4],
       [bit |-> 0, pSquared |-> 16, pMod |-> 16, pz |-> <<>>, last |-> 16],
       [bit |-> 0, pSquared |-> 256, pMod |-> 25, pz |-> <<>>, last |-> 25],
       [bit |-> 1, pSquared |-> 625, pMod |-> 9, pz |-> <<81>>, last |-> 4] >>

\* C21: the step table shown for a^c mod n follows the worked example of the
\* notes: the running value starts at 1, each row's p^2 is the square of the
\* running value and the next column that square mod n; for a bit of 1 the
\* p.z column is the reduced square times the base and the last column that
\* product mod n, otherwise the last column is the reduced square.  For
\* 9^17 mod 77 the rows are those of the notes.
C21_NotesTable ==
    (fmeResult.status = "ok" /\ fmeIn.modulus >= 2 /\ fmeIn.exponent >= 1
       /\ fmeIn.base >= 1 /\ fmeIn.base < fmeIn.modulus) =>
        /\ renderModExpStepsTable(fmeResult.steps)
              = NotesRows(fmeIn.base, fmeIn.exponent, fmeIn.modulus, 1, 1)
        /\ (fmeIn.base = 9 /\ fmeIn.exponent = 17 /\ fmeIn.modulus = 77) =>
              renderModExpStepsTable(fmeResult.steps) = NotesExample

RoundInput(k) ==
    IF k = 1 THEN SelectSeq(railIn.text, LAMBDA c : c # 32)
    ELSE railEncrypted.steps[k - 1].intermediateText

\* the place of key position c (1-based) in ascending key-character order,
\* equal characters left to right
KeyRank(key, c) ==
    1 + Cardinality({j \in 1 .. Len(key) :
                        key[j] < key[c] \/ (key[j] = key[c] /\ j < c)})

\* the characters of text at the 0-based positions i with i mod n = c - 1
ColumnText(text, n, c) ==
    LET count == Cardinality({i \in 0 .. (Len(text) - 1) : i % n = c - 1})
    IN  [r \in 1 .. count |-> text[(r - 1) * n + c]]

RECURSIVE ColumnsInOrder(_, _, _)
ColumnsInOrder(text, key, o) ==
    IF o > Len(key) THEN <<>>
    ELSE LET c == CHOOSE c \in 1 .. Len(key) : KeyRank(key, c) = o
         IN  ColumnText(text, Len(key), c) \o ColumnsInOrder(text, key, o + 1)

Occurrences(text, c) == Cardinality({i \in 1 .. Len(text) : text[i] = c})

\* a is a rearrangement of b
IsPermutation(a, b) ==
    /\ Len(a) = Len(b)
    /\ \A i \in 1 .. Len(b) : Occurrences(a, b[i]) = Occurrences(b, b[i])

NoSpaces(text) == SelectSeq(text, LAMBDA c : c # 32)

\* C24: for every non-empty key, every text and every number of rounds
\* >= 0, the text after every round of encrypt and of decrypt is a
\* permutation of the input with its whitespace removed.
C24_RoundsPermute ==
    /\ railEncrypted.status = "ok" =>
          /\ IsPermutation(railEncrypted.ciphertext, NoSpaces(railIn.text))
          /\ \A k \in 1 .. Len(railEncrypted.steps) :
                IsPermutation(railEncrypted.steps[k].intermediateText,
                              NoSpaces(railIn.text))
    /\ railDecrypted.status = "ok" =>
          \A k \in 0 .. railIn.rounds :
              IsPermutation(decryptRounds(NoSpaces(railEncrypted.ciphertext), railIn.key, k),
                            NoSpaces(railIn.text))
    /\ railDirect.status = "ok" =>
          /\ IsPermutation(railDirect.text, NoSpaces(railIn.text))
          /\ \A k \in 0 .. railIn.rounds :
                IsPermutation(decryptRounds(NoSpaces(railIn.text), railIn.key, k),
                              NoSpaces(railIn.text))

\* a text with a space, three other characters under a key of two (columns
\* of unequal length), decrypted in two rounds that each move characters
C24_Witness ==
    /\ railDirect.status = "ok"
    /\ railIn.text = <<97, 32, 98, 99>>
    /\ railIn.key = <<98, 97>>
    /\ railIn.rounds = 2
    /\ decryptRounds(<<97, 98, 99>>, railIn.key, 1) = <<99, 97, 98>>
    /\ railDirect.text # <<97, 98, 99>>
    /\ railDirect.text # <<99, 97, 98>>

\* C25: when the length of the whitespace-free text x is a multiple of the
\* number of key characters, decrypt(encrypt(x, key, r).ciphertext, key, r)
\* = x for every key and every r >= 1, the columns encrypt produced all
\* having the length decrypt assigns.
C25_FullRowsRoundTrip ==
    (railDecrypted.status = "ok" /\ railIn.rounds >= 1
       /\ NoSpaces(railIn.text) = railIn.text
       /\ Len(railIn.text) % Len(railIn.key) = 0) =>
        /\ railDecrypted.text = railIn.text
        /\ \A k \in 1 .. Len(railEncrypted.steps) :
              \A mk \in DOMAIN railEncrypted.steps[k].columnMap :
                  Len(railEncrypted.steps[k].columnMap[mk])
                      = Len(railIn.text) \div Len(railIn.key)

\* two rounds under the unsorted key ba over four characters, and the
\* ciphertext differs from the text
C25_Witness ==
    /\ railDecrypted.status = "ok"
    /\ railIn.key = <<98, 97>>
    /\ railIn.text = <<97, 98, 99, 97>>
    /\ railIn.rounds = 2
    /\ railEncrypted.ciphertext # railIn.text
    /\ railDecrypted.text = railIn.text

\* the cells of a round's table, row by row
TableText(tableData) ==
    joinCells([r \in 1 .. Len(tableData) |-> joinCells(tableData[r])])

\* C26: encrypt(x, key, r) records exactly r round traces in round order;
\* the intermediateText of round k is the input of round k + 1 and the last
\* intermediateText is the returned ciphertext (for r = 0 the ciphertext is
\* x with its whitespace removed and there is no trace); hence
\* encrypt(x, key, r + 1).ciphertext
\*     = encrypt(encrypt(x, key, r).ciphertext, key, 1).ciphertext.
C26_RoundTraces ==
    railEncrypted.status = "ok" =>
        LET steps == railEncrypted.steps
            r == railIn.rounds
        IN  /\ Len(steps) = r
            /\ r = 0 => railEncrypted.ciphertext = NoSpaces(railIn.text)
            /\ r >= 1 =>
                  /\ steps[r].intermediateText = railEncrypted.ciphertext
                  /\ TableText(steps[1].tableData) = NoSpaces(railIn.text)
            /\ \A k \in 1 .. (r - 1) :
                  /\ TableText(steps[k + 1].tableData) = steps[k].intermediateText
                  /\ steps[k + 1].intermediateText
                        = ColumnsInOrder(steps[k].intermediateText, railIn.key, 1)
            /\ RailFenceCipher_encrypt(railIn.text, railIn.key, r + 1).ciphertext
                  = RailFenceCipher_encrypt(railEncrypted.ciphertext, railIn.key, 1).ciphertext

\* two rounds that each move characters, over a text with a space
C26_Witness ==
    /\ railEncrypted.status = "ok"
    /\ railIn.rounds = 2
    /\ railIn.key = <<98, 97>>
    /\ railIn.text = <<97, 32, 98, 99>>
    /\ Len(railEncrypted.steps) = 2
    /\ railEncrypted.steps[1].intermediateText = <<98, 97, 99>>
    /\ railEncrypted.steps[2].intermediateText # railEncrypted.steps[1].intermediateText
    /\ railEncrypted.ciphertext = railEncrypted.steps[2].intermediateText

(***************************************************************************)
(* Playfair: the processed plaintext and the whole encryption              *)
(* (SpecPlayfairText)                                                      *)
(***************************************************************************)
\* the lower-case letter of a plaintext character (j as i), <<>> for any
\* other character
AsLetter(c) ==
    LET lower == IF c >= 65 /\ c <= 90 THEN c + 32 ELSE c
    IN  IF lower < 97 \/ lower > 122 THEN <<>>
        ELSE IF lower = 106 THEN <<105>> ELSE <<lower>>

RECURSIVE Normalized(_)
Normalized(text) ==
    IF text = <<>> THEN <<>> ELSE AsLetter(Head(text)) \o Normalized(Tail(text))

\* the letters of norm from position k on, a separator after each one that
\* equals its successor
RECURSIVE Separated(_, _, _)
Separated(norm, sep, k) ==
    IF k > Len(norm) THEN <<>>
    ELSE IF k < Len(norm) /\ norm[k] = norm[k + 1]
         THEN <<norm[k]>> \o sep \o Separated(norm, sep, k + 1)
         ELSE <<norm[k]>> \o Separated(norm, sep, k + 1)

\* C27: for every plaintext and every one-character separator,
\* processPlaintext returns the normalized text (lower-cased, non-letters
\* dropped, j replaced by i) with exactly one separator after each position
\* whose letter equals the next letter, followed by one more separator if
\* and only if that string has odd length and padding is enabled; so with
\* padding enabled the processed text has even length and getDigraphs
\* yields no single-letter residual.
C27_ProcessedText ==
    (playProcessed.status = "ok" /\ Len(playTextIn.separateChar) = 1) =>
        LET sep == playTextIn.separateChar
            separated == Separated(Normalized(playTextIn.plaintext), sep, 1)
            padded == Len(separated) % 2 = 1 /\ playTextIn.insertCharAtLast
        IN  /\ playProcessed.text = IF padded THEN separated \o sep ELSE separated
            /\ playTextIn.insertCharAtLast =>
                  /\ Len(playProcessed.text) % 2 = 0
                  /\ \A k \in 1 .. Len(playProcessed.digraphs) :
                        Len(playProcessed.digraphs[k]) = 2
                  /\ joinCells(playProcessed.digraphs) = playProcessed.text

\* 'J J' with padding: each J becomes i, the space is dropped, one x parts
\* the two i, and the three characters are padded to four
C27_Witness ==
    /\ playProcessed.status = "ok"
    /\ playTextIn.plaintext = <<74, 32, 74>>
    /\ playTextIn.separateChar = <<120>>
    /\ playTextIn.insertCharAtLast
    /\ playProcessed.text = <<105, 120, 105, 120>>
    /\ playProcessed.digraphs = << <<105, 120>>, <<105, 120>> >>

\* the inputs the page's validation lets through: a key and a plaintext
\* that are not blank, a separator of exactly one character
PassesValidation ==
    /\ \E i \in 1 .. Len(playTextIn.key) : playTextIn.key[i] # 32
    /\ \E i \in 1 .. Len(playTextIn.plaintext) : playTextIn.plaintext[i] # 32
    /\ Len(playTextIn.separateChar) = 1

\* what C28 promises of the result of encrypt
EncryptedInFull ==
    /\ playEncrypted.status = "ok"
    /\ LET processed == playEncrypted.processedPlaintext
           trace == playEncrypted.digraphs
       IN  /\ Len(processed) % 2 = 0
           /\ Len(trace) = Len(processed) \div 2
           /\ \A k \in 1 .. Len(trace) :
                 /\ trace[k].plaintext = <<processed[2 * k - 1], processed[2 * k]>>
                 /\ Len(trace[k].ciphertext) = 2
                 /\ playEncrypted.ciphertext[2 * k - 1] = trace[k].ciphertext[1]
                 /\ playEncrypted.ciphertext[2 * k] = trace[k].ciphertext[2]
           /\ Len(playEncrypted.ciphertext) = Len(processed)

\* C28: for every input that passes the Playfair input validation
\* (non-blank key, non-blank plaintext, separator of exactly one character)
\* with padding enabled, PlayfairCipher.encrypt returns a result:
\* findPosition never fails to locate a letter, the trace has one entry per
\* digraph in order, and the ciphertext is the concatenation of the digraph
\* ciphertexts, as long as the processed plaintext.
C28_ValidatedEncrypts ==
    (playEncrypted.status # "none" /\ PassesValidation
       /\ playTextIn.insertCharAtLast) =>
        EncryptedInFull

\* the same with a separator that is a letter: then every validated input
\* is encrypted in full
C28_LetterSeparator ==
    (playEncrypted.status # "none" /\ PassesValidation
       /\ playTextIn.insertCharAtLast
       /\ AsLetter(playTextIn.separateChar[1]) # <<>>) =>
        EncryptedInFull

\* C29: for every key, every plaintext and every one-letter separator with
\* padding enabled, every digraph that PlayfairCipher.encrypt processes
\* consists of two different letters.
C29_DistinctLetters ==
    (playEncrypted.status = "ok" /\ playTextIn.insertCharAtLast
       /\ Len(playTextIn.separateChar) = 1
       /\ AsLetter(playTextIn.separateChar[1]) # <<>>) =>
        \A k \in 1 .. Len(playEncrypted.digraphs) :
            LET pair == playEncrypted.digraphs[k].plaintext
            IN  /\ Len(pair) = 2
                /\ AsLetter(pair[1]) # AsLetter(pair[2])

\* the same for plaintexts in which the separator's letter does not occur
C29_SeparatorNotInText ==
    (playEncrypted.status = "ok" /\ playTextIn.insertCharAtLast
       /\ Len(playTextIn.separateChar) = 1
       /\ AsLetter(playTextIn.separateChar[1]) # <<>>
       /\ \A i \in 1 .. Len(playTextIn.plaintext) :
             AsLetter(playTextIn.plaintext[i]) # AsLetter(playTextIn.separateChar[1])) =>
        \A k \in 1 .. Len(playEncrypted.digraphs) :
            LET pair == playEncrypted.digraphs[k].plaintext
            IN  /\ Len(pair) = 2
                /\ AsLetter(pair[1]) # AsLetter(pair[2])

(***************************************************************************)
(* The RSA page: what is displayed (SpecRsaPage)                           *)
(***************************************************************************)
\* the encryption and the decryption the page would compute now, in the
\* selected security mode, for the entered message under the shown key pair
CurrentEncryption(page) ==
    IF page.securityMode = "both"
    THEN encryptWithBoth(page.message, page.keyGenResult.keyPair.privateKey,
                         page.keyGenResult.keyPair.publicKey)
    ELSE RsaCipher_encrypt(page.message, page.keyGenResult.keyPair.publicKey)

CurrentDecryption(page) ==
    LET encrypted == CurrentEncryption(page)
    IN  IF encrypted.status # "ok" THEN encrypted
        ELSE IF page.securityMode = "both"
        THEN decryptWithBoth(encrypted.result, page.keyGenResult.keyPair.privateKey,
                             page.keyGenResult.keyPair.publicKey)
        ELSE RsaCipher_decrypt(encrypted.result, page.keyGenResult.keyPair.privateKey)

\* the displayed encryption and decryption are those of the current inputs
DisplayIsCurrent(page) ==
    (operationsShown(page) /\ page.securityMode \in {"confidentiality", "both"}) =>
        /\ page.result.encryption # <<>> =>
              /\ CurrentEncryption(page).status = "ok"
              /\ page.result.encryption = <<CurrentEncryption(page).result>>
        /\ page.result.decryption # <<>> =>
              /\ CurrentDecryption(page).status = "ok"
              /\ page.result.decryption = <<CurrentDecryption(page).result>>

\* C30: on the RSA page, after any sequence of user actions (changing p,
\* q, e, the message or the security mode, generating keys, pressing
\* Calculate), whenever an encryption or decryption result is displayed
\* without an error, the displayed value is the operation of the selected
\* security mode applied to the entered message under the displayed key
\* pair.
C30_DisplayedResult == DisplayIsCurrent(rsaPage)

\* right after Calculate the display is that of the inputs
C30_RightAfterCalculate == [][PagePerformOperations => DisplayIsCurrent(rsaPage')]_vars

====
